---- MODULE Spec2Model ----
(***************************************************************************)
(* Serene-Grass-Land: the Game controller of src/Game.tsx (orb minigame,   *)
(* particle pool, player movement and collision, listeners, win timer).    *)
(*                                                                         *)
(* Units.  Lengths are in thousandths of a world unit (1.5 -> 1500), times *)
(* in milliseconds, speeds in thousandths of a unit per second, angles in  *)
(* degrees.  Products are rounded to the nearest integer (RoundDiv), which *)
(* stands for the float arithmetic of the code.                            *)
(***************************************************************************)
EXTENDS Integers, Sequences, FiniteSets, TLC

\* ------------------------------------------------------------------ constants
ORB_COUNT == 6
WIN_SCORE == 10
PLAYER_SIZE == 1000
MAX_PARTICLES == 150
PARTICLES_PER_BURST == 15
\* updatePlayer's local constants
moveSpeed == 5000
rotationSpeed == 10
hoverHeight == 1500
gravity == 20000
jumpStrength == 7000
\* orb sphere radius (SphereGeometry(0.3)), added to PLAYER_SIZE / 2 in the pickup test
orbRadius == 300
\* amplitude of the orb's bob and of its circular drift
circularRadius == 200
\* spawnOrbs: side of the spawn square, margin around the pond, clearance to the monolith
areaSize == 45000
pondMargin == 1000
monolithClearance == 2000
\* the host's pond and monolith (the arguments of new Game(...))
pondX == 10000
pondZ == 5000
pondRadius == 15000
monolithCX == 0
monolithCY == 1250
monolithCZ == -15000
monolithHalfX == 400
monolithHalfY == 1250
monolithHalfZ == 250

\* ------------------------------------------------------------------ bounds
\* calls of triggerOrbBurst and updateParticles that SpecParticles follows
MaxCalls == 12
\* joystick closures that may pile up on one button before startGame is no longer explored
MaxAttached == 2
\* the player is followed while it stays within this many 2.5-unit steps north of the spawn
ArenaSteps == 9
\* frames followed beside the monolith
MaxFrames == 2

\* ------------------------------------------------------------------ arithmetic
Abs(n) == IF n < 0 THEN -n ELSE n

\* a / b rounded to the nearest integer (b > 0), halves upward
RoundDiv(a, b) == (2 * a + b) \div (2 * b)

RECURSIVE SqrtSearch(_, _, _)
SqrtSearch(n, lo, hi) ==
    IF lo >= hi THEN lo
    ELSE LET mid == (lo + hi + 1) \div 2
         IN  IF mid * mid <= n THEN SqrtSearch(n, mid, hi) ELSE SqrtSearch(n, lo, mid - 1)

\* Math.sqrt, rounded to the nearest integer
Sqrt(n) ==
    LET f == SqrtSearch(n, 0, 46340)
    IN  IF n - f * f > f THEN f + 1 ELSE f

\* 1000 * cos and 1000 * sin on the 45-degree grid the model keeps yaw on
YawGrid == {0, 45, 90, 135, 180, 225, 270, 315}

Cos1000(deg) ==
    CASE deg = 0 -> 1000 [] deg = 45 -> 707 [] deg = 90 -> 0 [] deg = 135 -> -707
      [] deg = 180 -> -1000 [] deg = 225 -> -707 [] deg = 270 -> 0 [] deg = 315 -> 707

Sin1000(deg) == Cos1000((deg + 270) % 360)

\* 1e6 * Math.exp(-x / 1000) for the exponents rate * delta the model uses
ExpNegPpm(x) ==
    CASE x = 0     -> 1000000
      [] x = 10000 -> 45      \* exp(-20 * 0.5)
      [] x = 7500  -> 553     \* exp(-15 * 0.5)
      [] x = 2000  -> 135335  \* exp(-20 * 0.1)
      [] x = 1500  -> 223130  \* exp(-15 * 0.1)

\* d * ppm / 1e6 rounded to the nearest integer, computed in two parts so that no
\* product leaves 32 bits
MulPpm(d, ppm) ==
    (d * (ppm \div 1000) + ((d * (ppm % 1000) + 500000) \div 1000)) \div 1000

\* Vector3.lerp of one component: a + (b - a) * alpha, alpha in millionths
Lerp(a, b, alphaPpm) == a + MulPpm(b - a, alphaPpm)

VecAdd(u, v) == <<u[1] + v[1], u[2] + v[2], u[3] + v[3]>>

\* Vector3.distanceTo(b) < r, compared on the squares (a component of r or more
\* decides it before the squares are taken)
DistanceLess(a, b, r) ==
    /\ \A i \in 1..3 : Abs(a[i] - b[i]) < r
    /\ (a[1] - b[1]) * (a[1] - b[1]) + (a[2] - b[2]) * (a[2] - b[2])
          + (a[3] - b[3]) * (a[3] - b[3]) < r * r

\* ------------------------------------------------------------------ boxes
\* Box3 as [min |-> <<x, y, z>>, max |-> <<x, y, z>>]
monolithBBox ==
    [min |-> <<monolithCX - monolithHalfX, monolithCY - monolithHalfY, monolithCZ - monolithHalfZ>>,
     max |-> <<monolithCX + monolithHalfX, monolithCY + monolithHalfY, monolithCZ + monolithHalfZ>>]

\* Half-width, along world x and z, of the unit cube turned by yaw about the y axis:
\* Box3.setFromObject takes the world-axis-aligned hull of the turned corners.
HalfExtent(yaw) == RoundDiv((PLAYER_SIZE \div 2) * (Abs(Cos1000(yaw)) + Abs(Sin1000(yaw))), 1000)

\* new Box3().setFromObject(this.player)
BoxAround(pos, h, hy) ==
    [min |-> <<pos[1] - h, pos[2] - hy, pos[3] - h>>,
     max |-> <<pos[1] + h, pos[2] + hy, pos[3] + h>>]

playerBBox(pos, yaw) == BoxAround(pos, HalfExtent(yaw), PLAYER_SIZE \div 2)

\* Box3.translate
Translate(box, off) == [min |-> VecAdd(box.min, off), max |-> VecAdd(box.max, off)]

\* Box3.intersectsBox: touching faces count as intersecting
intersectsBox(a, b) ==
    ~ \E i \in 1..3 : b.max[i] < a.min[i] \/ b.min[i] > a.max[i]

Clamp(v, lo, hi) == IF v < lo THEN lo ELSE IF v > hi THEN hi ELSE v

\* Box3.distanceToPoint(p) < d, compared on the squares
BoxDistanceLess(box, p, d) ==
    LET c == [i \in 1..3 |-> Clamp(p[i], box.min[i], box.max[i])]
    IN  DistanceLess(p, c, d)

\* ------------------------------------------------------------------ spawnOrbs
\* a draw <<x, z>> of placeOrb: (Math.random() - 0.5) * areaSize on both axes
InSpawnArea(d) == 2 * Abs(d[1]) <= areaSize /\ 2 * Abs(d[2]) <= areaSize

\* the pond the host passes to new Game(...)
defaultPond == [x |-> pondX, z |-> pondZ, radius |-> pondRadius]

\* inPond with the pond test forgotten
inPondOf_Never(p, d) == FALSE

\* placeOrb's acceptance test on one draw <<x, z>>, for the pond p
inPondOf(p, d) == DistanceLess(<<d[1], 0, d[2]>>, <<p.x, 0, p.z>>, p.radius + pondMargin)

inPond(d) == inPondOf(defaultPond, d)

\* inMonolith with the clearance test forgotten
inMonolith_None(d) == FALSE

inMonolith(d) == BoxDistanceLess(monolithBBox, <<d[1], hoverHeight, d[2]>>, monolithClearance)

ValidPositionOf(p, d) == ~inPondOf(p, d) /\ ~inMonolith(d)

ValidPosition(d) == ValidPositionOf(defaultPond, d)

\* placeOrb: the rejection loop over the stream of random draws; the accepted draw
\* and the rest of the stream
RECURSIVE placeOrb(_)
placeOrb(draws) ==
    IF ValidPosition(Head(draws)) THEN [at |-> Head(draws), rest |-> Tail(draws)]
    ELSE placeOrb(Tail(draws))

\* the ORB_COUNT placements in call order: the special orb first, then the normal ones
RECURSIVE PlaceAll(_, _)
PlaceAll(draws, n) ==
    IF n = 0 THEN <<>>
    ELSE LET p == placeOrb(draws) IN <<p.at>> \o PlaceAll(p.rest, n - 1)

NoOrb == <<>>
SpecialId == ORB_COUNT

\* spawnOrbs: [orbs, specialOrb, score]; an orb is [id, base]
spawnOrbs(draws) ==
    LET at == PlaceAll(draws, ORB_COUNT)
    IN  [specialOrb |-> [id |-> SpecialId, base |-> at[1]],
         orbs  |-> [i \in 1..(ORB_COUNT - 1) |-> [id |-> i, base |-> at[i + 1]]],
         score |-> 0]

\* ------------------------------------------------------------------ particles
\* triggerOrbBurst making a new mesh when the pool is empty
RECURSIVE triggerOrbBurst_Alloc(_, _, _, _)
triggerOrbBurst_Alloc(pool, active, life, i) ==
    IF i > PARTICLES_PER_BURST THEN [pool |-> pool, active |-> active]
    ELSE IF pool = <<>>
    THEN triggerOrbBurst_Alloc(
            pool,
            Append(active, [mesh |-> MAX_PARTICLES + i, lifetime |-> life[i],
                            initialLifetime |-> life[i]]),
            life, i + 1)
    ELSE triggerOrbBurst_Alloc(
            SubSeq(pool, 1, Len(pool) - 1),
            Append(active, [mesh |-> pool[Len(pool)], lifetime |-> life[i],
                            initialLifetime |-> life[i]]),
            life, i + 1)

\* triggerOrbBurst: pop up to PARTICLES_PER_BURST meshes; life[i] is the i-th random lifetime
RECURSIVE triggerOrbBurst(_, _, _, _)
triggerOrbBurst(pool, active, life, i) ==
    IF i > PARTICLES_PER_BURST THEN [pool |-> pool, active |-> active]
    ELSE IF pool = <<>> THEN triggerOrbBurst(pool, active, life, i + 1)
    ELSE triggerOrbBurst(
            SubSeq(pool, 1, Len(pool) - 1),
            Append(active, [mesh |-> pool[Len(pool)], lifetime |-> life[i],
                            initialLifetime |-> life[i]]),
            life, i + 1)

RECURSIVE Bursts(_, _, _, _)
Bursts(pool, active, life, n) ==
    IF n = 0 THEN [pool |-> pool, active |-> active]
    ELSE LET b == triggerOrbBurst(pool, active, life, 1)
         IN  Bursts(b.pool, b.active, life, n - 1)

Reverse(s) == [i \in 1..Len(s) |-> s[Len(s) + 1 - i]]

\* updateParticles with the splice forgotten: an expired particle goes back to the
\* pool and stays in activeParticles
updateParticles_NoSplice(pool, active, delta) ==
    LET dead == SelectSeq(active, LAMBDA p : p.lifetime - delta <= 0)
    IN  [pool   |-> pool \o Reverse([i \in 1..Len(dead) |-> dead[i].mesh]),
         active |-> [i \in 1..Len(active) |-> [active[i] EXCEPT !.lifetime = @ - delta]]]

\* updateParticles: from the last entry to the first, age the particle and hand an
\* expired one back to the pool
updateParticles(pool, active, delta) ==
    LET dead == SelectSeq(active, LAMBDA p : p.lifetime - delta <= 0)
        live == SelectSeq(active, LAMBDA p : p.lifetime - delta > 0)
    IN  [pool   |-> pool \o Reverse([i \in 1..Len(dead) |-> dead[i].mesh]),
         active |-> [i \in 1..Len(live) |-> [live[i] EXCEPT !.lifetime = @ - delta]]]

\* ------------------------------------------------------------------ updatePlayer
\* Vector3.normalize().multiplyScalar(scale) on the horizontal components <<x, z>>
ScaledBy(v, scale, len) ==
    IF len = 0 THEN <<0, 0>> ELSE <<RoundDiv(v[1] * scale, len), RoundDiv(v[2] * scale, len)>>

Scaled(v, scale) == ScaledBy(v, scale, Sqrt(v[1] * v[1] + v[2] * v[2]))

\* (0, 0, -1).applyQuaternion(cameraOrbit), y dropped, normalized
Forward(camYaw) == Scaled(<<-Sin1000(camYaw), -Cos1000(camYaw)>>, 1000)

\* crossVectors((0, 1, 0), forward).normalize()
RightOf(f) == Scaled(<<f[2], -f[1]>>, 1000)

Right(camYaw) == RightOf(Forward(camYaw))

\* the sum of the held directions, scaled to moveSpeed when it is not zero
HeldDirections(keys, f, r) ==
    LET sgnF == (IF keys.w THEN 1 ELSE 0) - (IF keys.s THEN 1 ELSE 0)
        sgnR == (IF keys.a THEN 1 ELSE 0) - (IF keys.d THEN 1 ELSE 0)
    IN  <<sgnF * f[1] + sgnR * r[1], sgnF * f[2] + sgnR * r[2]>>

TargetVelocity(keys, camYaw) ==
    Scaled(HeldDirections(keys, Forward(camYaw), Right(camYaw)), moveSpeed)

\* yaw of Matrix4.lookAt(position, position + velocity, up): the cube's z axis points
\* against the velocity; the grid angle closest to that direction
YawOfVelocity(v) ==
    CHOOSE t \in YawGrid :
        \A o \in YawGrid :
            (-v[1]) * Sin1000(t) + (-v[2]) * Cos1000(t) >= (-v[1]) * Sin1000(o) + (-v[2]) * Cos1000(o)

\* Quaternion.slerp(target, t) between two yaw rotations, t in thousandths:
\* the shorter arc, scaled by t (t is not clamped)
Slerp(yaw, target, t1000) ==
    LET diff == ((target - yaw + 540) % 360) - 180
    IN  IF t1000 = 0 THEN yaw
        ELSE IF t1000 = 1000 THEN target
        ELSE (yaw + RoundDiv(diff * t1000, 1000)) % 360

\* the jump block of updatePlayer with the landing forgotten
Vertical_NoLanding(p, delta) ==
    IF p.isJumping
    THEN LET yv == p.yVelocity - RoundDiv(gravity * delta, 1000)
             y  == p.pos[2] + RoundDiv(yv * delta, 1000)
         IN  [y |-> y, yVelocity |-> yv, isJumping |-> TRUE]
    ELSE [y |-> p.pos[2], yVelocity |-> p.yVelocity, isJumping |-> p.isJumping]

\* the jump block of updatePlayer: [y, yVelocity, isJumping]
Vertical(p, delta) ==
    IF p.isJumping
    THEN LET yv == p.yVelocity - RoundDiv(gravity * delta, 1000)
             y  == p.pos[2] + RoundDiv(yv * delta, 1000)
         IN  IF y <= hoverHeight
             THEN [y |-> hoverHeight, yVelocity |-> 0, isJumping |-> FALSE]
             ELSE [y |-> y, yVelocity |-> yv, isJumping |-> TRUE]
    ELSE [y |-> p.pos[2], yVelocity |-> p.yVelocity, isJumping |-> p.isJumping]

\* the collision test of updatePlayer: does the player's box, moved by the step, hit the monolith
Blocked(pos, yaw, moveStep) ==
    intersectsBox(Translate(playerBBox(pos, yaw), moveStep), monolithBBox)

\* updatePlayer, the orientation: turn towards the velocity when it is not (nearly) zero
TurnedYaw(yaw, vel, delta) ==
    \* velocity.lengthSq() > 0.01
    IF vel[1] * vel[1] + vel[2] * vel[2] > 10000
    THEN Slerp(yaw, YawOfVelocity(vel), delta * rotationSpeed)
    ELSE yaw

\* updatePlayer, the collision test: the step is taken unless the moved box hits the
\* monolith, and then the velocity is zeroed; the box is the one of the orientation
\* the player has before it turns
MovedPlayer(p, vert, pos1, vel1, moveStep, blocked, delta) ==
    [pos       |-> IF blocked THEN pos1 ELSE VecAdd(pos1, moveStep),
     yaw       |-> TurnedYaw(p.yaw, IF blocked THEN <<0, 0>> ELSE vel1, delta),
     velocity  |-> IF blocked THEN <<0, 0>> ELSE vel1,
     yVelocity |-> vert.yVelocity,
     isJumping |-> vert.isJumping]

\* updatePlayer, the horizontal step of the new velocity
SteppedPlayer(p, vert, pos1, vel1, moveStep, delta) ==
    MovedPlayer(p, vert, pos1, vel1, moveStep, Blocked(pos1, p.yaw, moveStep), delta)

\* updatePlayer once the velocity has been eased towards its target
EasedPlayer(p, vert, vel1, delta) ==
    SteppedPlayer(p, vert, <<p.pos[1], vert.y, p.pos[3]>>, vel1,
                  <<RoundDiv(vel1[1] * delta, 1000), 0, RoundDiv(vel1[2] * delta, 1000)>>, delta)

\* velocity.lerp(targetVelocity, lerpFactor)
EasedVelocity(vel, target, lerpFactor) ==
    <<Lerp(vel[1], target[1], lerpFactor), Lerp(vel[2], target[2], lerpFactor)>>

\* updatePlayer(delta) on p = [pos, yaw, velocity, yVelocity, isJumping]
updatePlayer(p, keys, camYaw, delta) ==
    EasedPlayer(p, Vertical(p, delta),
                EasedVelocity(p.velocity, TargetVelocity(keys, camYaw),
                              1000000 - ExpNegPpm(20 * delta)),
                delta)

\* jump() without its guard
jump_NoGuard(p) == [p EXCEPT !.isJumping = TRUE, !.yVelocity = jumpStrength]

\* jump()
jump(p) ==
    IF ~p.isJumping THEN [p EXCEPT !.isJumping = TRUE, !.yVelocity = jumpStrength] ELSE p

\* ------------------------------------------------------------------ the jump at 60 updates a second
\* With delta = 1/60 s the jump block of updatePlayer is exact in these units: speed in
\* 1/3000 per second, height in 1/180000, so that yVelocity * delta is yVelocity
\* height units and gravity * delta is gravity / 20 speed units.
hover60 == hoverHeight * 180
launch60 == jumpStrength * 3
gravityDelta60 == gravity \div 20

\* what the rounding of one double operation can add, in these units
RoundErr == {-1, 0, 1}

\* the player at rest on the hover height; gdt is gravity * delta as the doubles give it
Grounded60(gdt) == [y |-> hover60, yVelocity |-> 0, isJumping |-> FALSE, gdt |-> gdt]

\* jump() in these units
jump60(a) ==
    IF ~a.isJumping THEN [a EXCEPT !.isJumping = TRUE, !.yVelocity = launch60] ELSE a

\* the jump block without the landing branch
Vertical60_NoLanding(a, err) ==
    IF a.isJumping
    THEN [a EXCEPT !.yVelocity = a.yVelocity - a.gdt,
                   !.y = a.y + (a.yVelocity - a.gdt) + err]
    ELSE a

\* the jump block of updatePlayer for delta = 1/60, err the rounding of the new height
Vertical60(a, err) ==
    IF a.isJumping
    THEN LET yv == a.yVelocity - a.gdt
             y  == a.y + yv + err
         IN  IF y <= hover60
             THEN [a EXCEPT !.y = hover60, !.yVelocity = 0, !.isJumping = FALSE]
             ELSE [a EXCEPT !.y = y, !.yVelocity = yv]
    ELSE a

\* ------------------------------------------------------------------ updateCamera
cameraTargetOffset == <<0, 1200, 0>>
startOffset == <<0, 3000, 7000>>

\* pitch of the camera that startGame leaves: it looks from (0, 3, 7) at (0, 1.2, 0),
\* -atan(1.8 / 7) = -14.42 degrees, in thousandths of a degree
startPitch == -14421

\* cameraOffset (0, 2.5, 6) turned by cameraOrbit = yaw about y after pitch about x
OrbitOffset(yaw, pitch) ==
    LET yz == CASE pitch = startPitch -> <<3915, 5188>>
                [] pitch = 0 -> <<2500, 6000>>
    IN  <<RoundDiv(yz[2] * Sin1000(yaw), 1000), yz[1], RoundDiv(yz[2] * Cos1000(yaw), 1000)>>

\* updateCamera(delta) on c = [pos, lookAt]
updateCamera(c, playerPos, yaw, pitch, delta) ==
    LET desiredPosition == VecAdd(playerPos, OrbitOffset(yaw, pitch))
        desiredLookAt == VecAdd(playerPos, cameraTargetOffset)
        lerpFactor == 1000000 - ExpNegPpm(15 * delta)
    IN  [pos    |-> [i \in 1..3 |-> Lerp(c.pos[i], desiredPosition[i], lerpFactor)],
         lookAt |-> [i \in 1..3 |-> Lerp(c.lookAt[i], desiredLookAt[i], lerpFactor)]]

\* ------------------------------------------------------------------ the orbit camera's angles
\* Math.PI / 2 * 0.8 in thousandths of a degree
pitchLimit == 72000
\* 0.002 rad and 0.004 rad in millionths of a degree: the turn for one pixel of
\* mouse movement and of touch movement
mouseTurn == 114592
touchTurn == 229183

\* cameraEuler after a rotation by movement = <<movementX, movementY>> pixels at turn
\* per pixel, without the clamp of the pitch
turnCamera_NoClamp(euler, movement, turn) ==
    [x |-> euler.x - RoundDiv(movement[2] * turn, 1000),
     y |-> euler.y - RoundDiv(movement[1] * turn, 1000000)]

\* the same with the pitch clamped, as both move handlers do: x in thousandths of a
\* degree, y in degrees
turnCamera(euler, movement, turn) ==
    [x |-> Clamp(euler.x - RoundDiv(movement[2] * turn, 1000), -pitchLimit, pitchLimit),
     y |-> euler.y - RoundDiv(movement[1] * turn, 1000000)]

\* ------------------------------------------------------------------ updateOrbs
\* updateOrbAnimation: the orb's position, phase = <<cos, bob, sin>> * circularRadius / 1000
OrbPosition(orb, phase) ==
    <<orb.base[1] + RoundDiv(phase[1] * circularRadius, 1000),
      hoverHeight + RoundDiv(phase[2] * circularRadius, 1000),
      orb.base[2] + RoundDiv(phase[3] * circularRadius, 1000)>>

\* the pickup test of updateOrbs
InPickupRange(playerPos, orb, phase) ==
    DistanceLess(playerPos, OrbPosition(orb, phase), PLAYER_SIZE \div 2 + orbRadius)

\* the win test with a strict comparison: a score of exactly WIN_SCORE is no win
WinReached_Strict(sc, celebrating) == sc > WIN_SCORE /\ ~celebrating

\* handleWin is called when the score has reached WIN_SCORE outside a celebration
WinReached(sc, celebrating) == sc >= WIN_SCORE /\ ~celebrating

\* updateOrbs with the removal forgotten: a picked orb is scored and stays in place
updateOrbs_NoSplice(g, playerPos, phase) ==
    IF g.isCelebratingWin
    THEN [orbs |-> g.orbs, specialOrb |-> g.specialOrb, score |-> g.score,
          picked |-> {}, win |-> FALSE]
    ELSE LET hit == {i \in 1..Len(g.orbs) : InPickupRange(playerPos, g.orbs[i], phase)}
             hitS == g.specialOrb # NoOrb /\ InPickupRange(playerPos, g.specialOrb, phase)
             sc == g.score + Cardinality(hit) + (IF hitS THEN 5 ELSE 0)
         IN  [orbs |-> g.orbs, specialOrb |-> g.specialOrb, score |-> sc,
              picked |-> {g.orbs[i].id : i \in hit} \cup (IF hitS THEN {SpecialId} ELSE {}),
              win |-> WinReached(sc, g.isCelebratingWin)]

\* updateOrbs with the celebration ignored: no early return, and handleWin whenever
\* the score has reached WIN_SCORE
updateOrbs_NoGuard(g, playerPos, phase) ==
    LET hit == {i \in 1..Len(g.orbs) : InPickupRange(playerPos, g.orbs[i], phase)}
        hitS == g.specialOrb # NoOrb /\ InPickupRange(playerPos, g.specialOrb, phase)
        sc == g.score + Cardinality(hit) + (IF hitS THEN 5 ELSE 0)
    IN  [orbs |-> SelectSeq(g.orbs, LAMBDA o : ~InPickupRange(playerPos, o, phase)),
         specialOrb |-> IF hitS THEN NoOrb ELSE g.specialOrb,
         score |-> sc,
         picked |-> {g.orbs[i].id : i \in hit} \cup (IF hitS THEN {SpecialId} ELSE {}),
         win |-> sc >= WIN_SCORE]

\* updateOrbs with the special orb scored like a normal one
updateOrbs_FlatScore(g, playerPos, phase) ==
    IF g.isCelebratingWin
    THEN [orbs |-> g.orbs, specialOrb |-> g.specialOrb, score |-> g.score,
          picked |-> {}, win |-> FALSE]
    ELSE LET hit == {i \in 1..Len(g.orbs) : InPickupRange(playerPos, g.orbs[i], phase)}
             hitS == g.specialOrb # NoOrb /\ InPickupRange(playerPos, g.specialOrb, phase)
             sc == g.score + Cardinality(hit) + (IF hitS THEN 1 ELSE 0)
         IN  [orbs |-> SelectSeq(g.orbs, LAMBDA o : ~InPickupRange(playerPos, o, phase)),
              specialOrb |-> IF hitS THEN NoOrb ELSE g.specialOrb,
              score |-> sc,
              picked |-> {g.orbs[i].id : i \in hit} \cup (IF hitS THEN {SpecialId} ELSE {}),
              win |-> WinReached(sc, g.isCelebratingWin)]

\* updateOrbs on g = [orbs, specialOrb, score, isCelebratingWin]:
\* the orbs left, the score, the ids picked up (one burst each) and whether handleWin runs
updateOrbs(g, playerPos, phase) ==
    IF g.isCelebratingWin
    THEN [orbs |-> g.orbs, specialOrb |-> g.specialOrb, score |-> g.score,
          picked |-> {}, win |-> FALSE]
    ELSE LET hit == {i \in 1..Len(g.orbs) : InPickupRange(playerPos, g.orbs[i], phase)}
             hitS == g.specialOrb # NoOrb /\ InPickupRange(playerPos, g.specialOrb, phase)
             sc == g.score + Cardinality(hit) + (IF hitS THEN 5 ELSE 0)
         IN  [orbs |-> SelectSeq(g.orbs, LAMBDA o : ~InPickupRange(playerPos, o, phase)),
              specialOrb |-> IF hitS THEN NoOrb ELSE g.specialOrb,
              score |-> sc,
              picked |-> {g.orbs[i].id : i \in hit} \cup (IF hitS THEN {SpecialId} ELSE {}),
              win |-> WinReached(sc, g.isCelebratingWin)]

\* ------------------------------------------------------------------ listeners
Keys == {"w", "a", "s", "d"}
\* a listener is <<target, event type>>
\* handlers kept in a field of the Game: the same function object at every add and remove
DesktopHandlers == {<<"window", "keydown">>, <<"window", "keyup">>, <<"document", "mousemove">>}
MobileHandlers == {<<"canvas", "touchstart">>, <<"canvas", "touchmove">>, <<"jump-btn", "touchstart">>}
\* mobileControlListener(key, value): a new closure at every call
JoyButton(k) == CASE k = "w" -> "joy-w" [] k = "a" -> "joy-a" [] k = "s" -> "joy-s" [] k = "d" -> "joy-d"
JoyEvent(v) == IF v THEN "touchstart" ELSE "touchend"
JoyHandlers == {<<JoyButton(k), JoyEvent(v)>> : k \in Keys, v \in BOOLEAN}
Handlers == DesktopHandlers \cup MobileHandlers \cup JoyHandlers

\* addEventListener: a function object already attached is not attached again
AddListener(l, h) == IF h \in JoyHandlers THEN l[h] + 1 ELSE 1

\* removeEventListener: removes the function object it is given, if attached
RemoveListener(l, h) == IF h \in JoyHandlers THEN l[h] ELSE 0

setupEventListeners(l, mobile) ==
    [h \in Handlers |->
        IF mobile /\ h \in MobileHandlers \cup JoyHandlers THEN AddListener(l, h)
        ELSE IF ~mobile /\ h \in DesktopHandlers THEN AddListener(l, h)
        ELSE l[h]]

disposeEventListeners(l, mobile) ==
    [h \in Handlers |->
        IF mobile /\ h \in MobileHandlers \cup JoyHandlers THEN RemoveListener(l, h)
        ELSE IF ~mobile /\ h \in DesktopHandlers THEN RemoveListener(l, h)
        ELSE l[h]]

\* ------------------------------------------------------------------ vegetation
\* no InstancedMesh yet
NoMesh == <<>>

\* areaSize of createGrass and createPineTrees
fieldSize == 50000
treeMargin == 2000
treeFreeHalf == 20000

\* the host's capacities, also the upper ends of the density sliders
maxGrassCount == 50000
maxTreeCount == 5
\* initialParams.treeCount
treeCount == 5

InField(d) == 2 * Abs(d[1]) <= fieldSize /\ 2 * Abs(d[2]) <= fieldSize

\* the while condition of createGrass's do-loop on a draw <<x, z>>
grassRejects(p, d) == DistanceLess(<<d[1], 0, d[2]>>, <<p.x, 0, p.z>>, p.radius)

\* the while condition of createPineTrees's do-loop
treeRejects(p, d) ==
    \/ DistanceLess(<<d[1], 0, d[2]>>, <<p.x, 0, p.z>>, p.radius + treeMargin)
    \/ (Abs(d[1]) < treeFreeHalf /\ Abs(d[2]) < treeFreeHalf)

\* createGrass: the mesh allocated for maxCount instances, count set from the
\* parameters, every instance written at an accepted draw; at is the set of positions
\* the instances were written at
createGrass(grassCount, maxCount, at) == [count |-> grassCount, capacity |-> maxCount, at |-> at]

createPineTrees(at) == [count |-> treeCount, capacity |-> maxTreeCount, at |-> at]

\* the Grass Density and Tree Density handlers: count = Math.floor(value), the value a
\* stop of the slider and so a whole number
setCount(mesh, value) == [mesh EXCEPT !.count = value]

\* ------------------------------------------------------------------ grass colours
\* colours as <<r, g, b>> in 0..255; an instance colour is kept in thousandths of that
\* params.grassBaseColor, '#a7c957'
grassBaseColor == <<167, 201, 87>>

\* color.set(value); color.multiplyScalar(0.8 + Math.random() * 0.4), the factor in
\* thousandths
Shaded(value, factor) == <<value[1] * factor, value[2] * factor, value[3] * factor>>

\* the instances the model looks at: the first, and those at and just under the stops
\* of the density slider
Samples == {0, 999, 1000, 24999, 49999}

\* createGrass: count from the parameters, and every instance up to maxGrassCount
\* coloured from the base colour
lawnStart ==
    [count |-> maxGrassCount, base |-> grassBaseColor,
     colors |-> [i \in Samples |-> Shaded(grassBaseColor, IF i % 2 = 0 THEN 800 ELSE 1199)]]

\* the Grass Base Color handler: material.color.set(value) and a new colour for the
\* instances below grassMesh.count
setGrassBaseColor(l, value, factors) ==
    [l EXCEPT !.base = value,
              !.colors = [i \in Samples |->
                             IF i < l.count THEN Shaded(value, factors[i]) ELSE l.colors[i]]]

\* ------------------------------------------------------------------ the host page
\* uMousePos when nothing is pointed at
Sentinel == <<9999000, 9999000, 9999000>>
NoHit == <<>>

\* where the pointer is: over the player cube, over open ground, over the sky
Pointers == {"cube", "ground", "sky"}

\* the point of the ground the ray through the pointer hits (raycaster.intersectObjects,
\* the entry whose object is the ground)
GroundHit(mouse) ==
    IF mouse = "cube" THEN <<12000, 0, 3000>>
    ELSE IF mouse = "ground" THEN <<9000, 0, -9000>>
    ELSE NoHit

\* the host's state after the effect has run: spectator mode, the pointer at the centre
\* of the view, the grass shader not compiled yet
hostInit ==
    [gameState |-> "spectator", hovered |-> FALSE, mouse |-> "ground",
     lockRequested |-> FALSE, locked |-> FALSE, shader |-> FALSE,
     elapsed |-> 0, time |-> 0, uMousePos |-> Sentinel, lastEvent |-> "load"]

\* one run of animateSpectator: the grass uniforms are written if the shader exists,
\* the hover state follows the ray, and composer.render() compiles the shader on the
\* first frame, creating time = 0 and uMousePos = the sentinel
animateSpectator(h) ==
    [h EXCEPT !.elapsed = h.elapsed + 1,
              !.time = IF h.shader THEN h.elapsed + 1 ELSE 0,
              !.hovered = (h.mouse = "cube"),
              !.uMousePos = IF h.shader /\ GroundHit(h.mouse) # NoHit
                            THEN GroundHit(h.mouse) ELSE Sentinel,
              !.shader = TRUE,
              !.lastEvent = "frame"]

\* what handleClick (mobile) and handlePointerLockChange (locked) do to the host's own
\* state around game.startGame(), whose animate() renders a frame at once
hostStarted(h, event) ==
    [h EXCEPT !.gameState = "playing", !.hovered = FALSE, !.elapsed = h.elapsed + 1,
              !.lastEvent = event]

\* ------------------------------------------------------------------ the earlier game loop of App.tsx
\* updatePlayer's constants there: units per second squared, per second, millionths
moveForce == 30000
jumpHeight == 8000
appGravity == -20000
\* player.position.set(0, playerSize / 2, 5), at setup and at the pond reset
appSpawn == <<0, PLAYER_SIZE \div 2, 5000>>

\* 1e6 * Math.pow(damping, delta * 60) with damping = 0.92
DampingPpm(delta) ==
    CASE delta = 100 -> 606355
      [] delta = 500 -> 81966

\* camera.getWorldDirection on the ground plane, as <<x, z>> in thousandths
appForward(yaw) == <<-Sin1000(yaw), -Cos1000(yaw)>>

\* one component of moveDirection before it is normalised: forward for w, back for s,
\* right = -(up x forward) for a, its opposite for d
appPull(keys, f, r) ==
    (IF "w" \in keys THEN f ELSE 0) - (IF "s" \in keys THEN f ELSE 0)
        + (IF "a" \in keys THEN r ELSE 0) - (IF "d" \in keys THEN r ELSE 0)

Normalized(x, z, n) == IF n = 0 THEN <<0, 0>> ELSE <<RoundDiv(x * 1000, n), RoundDiv(z * 1000, n)>>

UnitOf(x, z) == Normalized(x, z, Sqrt(x * x + z * z))

\* moveDirection.normalize()
appDirection(keys, f) == UnitOf(appPull(keys, f[1], -f[2]), appPull(keys, f[2], f[1]))

\* the velocity once gravity, the move force and the damping are applied
appPushed(v, dir, delta) ==
    << MulPpm(v[1] + RoundDiv(dir[1] * (moveForce \div 1000) * delta, 1000), DampingPpm(delta)),
       v[2] + RoundDiv(appGravity * delta, 1000),
       MulPpm(v[3] + RoundDiv(dir[2] * (moveForce \div 1000) * delta, 1000), DampingPpm(delta)) >>

\* new Box3().setFromObject(player): the unit cube, never turned in this loop
appBox(pos) ==
    [min |-> <<pos[1] - 500, pos[2] - 500, pos[3] - 500>>,
     max |-> <<pos[1] + 500, pos[2] + 500, pos[3] + 500>>]

\* the move along x, taken back if the cube then meets the monolith
appMovedX(pos, v, step) ==
    IF intersectsBox(appBox(<<pos[1] + step, pos[2], pos[3]>>), monolithBBox)
    THEN [pos |-> pos, velocity |-> <<0, v[2], v[3]>>]
    ELSE [pos |-> <<pos[1] + step, pos[2], pos[3]>>, velocity |-> v]

\* the same along z
appMovedZ(m, step) ==
    IF intersectsBox(appBox(<<m.pos[1], m.pos[2], m.pos[3] + step>>), monolithBBox)
    THEN [pos |-> m.pos, velocity |-> <<m.velocity[1], m.velocity[2], 0>>]
    ELSE [pos |-> <<m.pos[1], m.pos[2], m.pos[3] + step>>, velocity |-> m.velocity]

\* the three moves: y, then x, then z
appMoved(pos, v, delta) ==
    appMovedZ(appMovedX(<<pos[1], pos[2] + RoundDiv(v[2] * delta, 1000), pos[3]>>, v,
                        RoundDiv(v[1] * delta, 1000)),
              RoundDiv(v[3] * delta, 1000))

\* the jump, then the floor at playerSize / 2
appLanded(m, onGround, space) ==
    IF m.pos[2] < PLAYER_SIZE \div 2
    THEN [pos |-> <<m.pos[1], PLAYER_SIZE \div 2, m.pos[3]>>,
          velocity |-> <<m.velocity[1], 0, m.velocity[3]>>, onGround |-> TRUE]
    ELSE IF space /\ onGround
    THEN [pos |-> m.pos, velocity |-> <<m.velocity[1], jumpHeight, m.velocity[3]>>,
          onGround |-> FALSE]
    ELSE [pos |-> m.pos, velocity |-> m.velocity, onGround |-> onGround]

\* playerPos2D.distanceTo(pond centre) < pondRadius, on the squares; pondPosition is
\* (10, 0.05, 5) and pondRadius 15 there as well
appInPond(pos) ==
    (pos[1] - pondX) * (pos[1] - pondX) + (pos[3] - pondZ) * (pos[3] - pondZ)
        < pondRadius * pondRadius

\* the pond test closing updatePlayer: back to the start with no velocity; tried is
\* where the move had taken the player, reset whether the test fired
appPondReset(l, keys) ==
    IF appInPond(l.pos)
    THEN [pos |-> appSpawn, velocity |-> <<0, 0, 0>>, onGround |-> l.onGround,
          keys |-> keys, tried |-> l.pos, reset |-> TRUE]
    ELSE [pos |-> l.pos, velocity |-> l.velocity, onGround |-> l.onGround, keys |-> keys,
          tried |-> l.pos, reset |-> FALSE]

\* updatePlayer(delta) of that loop on w = [pos, velocity, onGround, keys]
updatePlayerApp(w, yaw, delta) ==
    appPondReset(
        appLanded(appMoved(w.pos, appPushed(w.velocity, appDirection(w.keys, appForward(yaw)), delta),
                           delta),
                  w.onGround, " " \in w.keys),
        w.keys)

\* the player as set up, no key down
walkerStart ==
    [pos |-> appSpawn, velocity |-> <<0, 0, 0>>, onGround |-> FALSE, keys |-> {},
     tried |-> appSpawn, reset |-> FALSE]

\* ------------------------------------------------------------------ THREE.Clock
\* times in milliseconds; a clock is the time of its last reading, oldTime
\* Clock.getDelta() at time t: the time since the last reading, which becomes t
getDelta(oldTime, t) == [value |-> t - oldTime, oldTime |-> t]

\* Clock.getElapsedTime() at time t: it calls getDelta() and so moves oldTime to t
getElapsedTime(oldTime, t) == getDelta(oldTime, t).oldTime

\* the loops with a clock of their own: App.tsx's animate, the host's animateSpectator,
\* Game.animate
ClockLoops == {"app", "spectator", "game"}

\* the delta a frame hands to its updates when it reads getElapsedTime() and then,
\* between ms later, getDelta()
elapsedThenDelta(oldTime, t, between) == getDelta(getElapsedTime(oldTime, t), t + between)

\* the same when it reads getDelta() first and getElapsedTime() after
deltaThenElapsed(oldTime, t, between) ==
    [value |-> getDelta(oldTime, t).value,
     oldTime |-> getElapsedTime(getDelta(oldTime, t).oldTime, t + between)]

\* every clock started and every loop's first frame run at time 0; delta is what the
\* last frame handed to its updates, gap the time since that loop's frame before
clockStart ==
    [now |-> 0, oldTime |-> [l \in ClockLoops |-> 0], frameAt |-> [l \in ClockLoops |-> 0],
     delta |-> 0, gap |-> 0, last |-> "none"]

\* the clock record after a frame of loop l begun at c.now
framed(c, l, read) ==
    [c EXCEPT !.oldTime[l] = read.oldTime,
              !.frameAt[l] = c.now,
              !.delta = read.value,
              !.gap = c.now - c.frameAt[l],
              !.last = l]

\* ------------------------------------------------------------------ the host's render loop
\* playerMaterial.emissiveIntensity in thousandths, and the hovered glow, 3 times as much
baseEmissiveIntensity == 400
hoverEmissiveIntensity == 3 * baseEmissiveIntensity

\* after the mount: animateSpectator() has run once and its next callback is pending,
\* the host's animationFrameId names it, the glow target is the base intensity;
\* renders counts the composer.render() calls since
loopStart ==
    [spectator |-> 1, handleLive |-> TRUE, cleaned |-> FALSE, renders |-> 0,
     target |-> baseEmissiveIntensity]

\* cancelAnimationFrame(animationFrameId) of the host: the callback it names is
\* dropped if it is still pending
cancelSpectator(l) ==
    IF l.handleLive THEN [l EXCEPT !.spectator = @ - 1, !.handleLive = FALSE] ELSE l

\* animationFrameId = requestAnimationFrame(animateSpectator)
requestSpectator(l) == [l EXCEPT !.spectator = @ + 1, !.handleLive = TRUE]

\* game.setPlayerHover(isHovered): the new glow target
setPlayerHover(target, active, isHovered) ==
    IF active THEN target
    ELSE IF isHovered THEN hoverEmissiveIntensity ELSE baseEmissiveIntensity

\* the player hover logic of animateSpectator: hoveredObject and the glow target
hoverLogic(h, l, active) ==
    IF h.mouse = "cube" /\ ~h.hovered
    THEN [hovered |-> TRUE, target |-> setPlayerHover(l.target, active, TRUE)]
    ELSE IF h.mouse # "cube" /\ h.hovered
    THEN [hovered |-> FALSE, target |-> setPlayerHover(l.target, active, FALSE)]
    ELSE [hovered |-> h.hovered, target |-> l.target]

\* what starting from the host does to the glow: game.startGame() has made the game
\* active when game.setPlayerHover(false) is called for a hovered cube
startedTarget(h, l) ==
    IF h.hovered THEN setPlayerHover(l.target, TRUE, FALSE) ELSE l.target

\* ------------------------------------------------------------------ createPineTreeGeometry
branchLevels == 10
branchesPerLevel == 5
padsOnBranch == 5
trunkRadius == 300
\* the length below which a level is skipped
minBranchLength == 500

\* 10000 * Math.sin(levelRatio * Math.PI) for levelRatio = i / 9; Math.sin(Math.PI) is
\* 1.2e-16 in doubles, 0 at this resolution and not negative either way
SinLevel(i) == <<0, 3420, 6428, 8660, 9848, 9848, 8660, 6428, 3420, 0>>[i + 1]

\* branchLength of level i, in thousandths
branchLength(i) == RoundDiv(SinLevel(i) * 2500, 10000) + 500

\* the loops before the first level: i, j the level and the branch in hand, k = 0 before
\* the branch's cone is pushed and then the pad in hand; cones and pads count what was
\* pushed to geometries for each level
treeStart ==
    [i |-> 0, j |-> 0, k |-> 0,
     cones |-> [l \in 0..(branchLevels - 1) |-> 0],
     pads |-> [l \in 0..(branchLevels - 1) |-> 0]]

\* the level test and, for a level not skipped, the branch cone of branch j
beginBranch(t) ==
    IF branchLength(t.i) < minBranchLength
    THEN [t EXCEPT !.i = t.i + 1, !.j = 0]
    ELSE [t EXCEPT !.cones[t.i] = t.cones[t.i] + 1, !.k = 1]

\* one turn of the pad loop: pad k is pushed unless k / padsOnBranch * branchLength is
\* below trunkRadius * 1.5; after the last pad the next branch, after the last branch
\* the next level
padTurn(t) ==
    LET skip == 2 * t.k * branchLength(t.i) < 3 * padsOnBranch * trunkRadius
        n == IF skip THEN t.pads[t.i] ELSE t.pads[t.i] + 1
    IN  IF t.k < padsOnBranch THEN [t EXCEPT !.pads[t.i] = n, !.k = t.k + 1]
        ELSE IF t.j < branchesPerLevel - 1
        THEN [t EXCEPT !.pads[t.i] = n, !.k = 0, !.j = t.j + 1]
        ELSE [t EXCEPT !.pads[t.i] = n, !.k = 0, !.j = 0, !.i = t.i + 1]

\* ------------------------------------------------------------------ inputs
\* frame times (clock.getDelta()) of the game loop, in ms
Deltas == {500}
\* streams of Math.random() draws <<x, z>> handed to spawnOrbs: with rejected draws
\* (in the pond, next to the monolith), orbs in a row, orbs side by side, an orb at the
\* edge of the pickup radius; and six orbs on one spot
DrawStreams ==
    { s \in
      { << <<10000, 5000>>, <<10000, -12500>>, <<0, -13000>>, <<10300, -15000>>,
         <<9700, -15000>>, <<10000, -17500>>, <<10700, -17500>>, <<10000, -15000>> >>,
      << <<10000, -12500>>, <<10200, -12500>>, <<9800, -12500>>, <<10000, -12300>>,
         <<10000, -12700>>, <<10100, -12600>> >> } :
      \A i \in DOMAIN s : InSpawnArea(s[i]) }
\* <<cos, bob, sin>> * 1000 of an orb's animation phase at the frame
OrbPhases == { <<1000, 0, 0>>, <<0, 1000, 1000>>, <<-1000, -1000, 0>> }
\* the random lifetimes of a burst's particles, Math.random() * 0.6 + 0.4 seconds:
\* in the game loop's frames, and in the calls of SpecParticles
LifePatterns == { [i \in 1..PARTICLES_PER_BURST |-> 400] }
MixedLife == [i \in 1..PARTICLES_PER_BURST |-> IF i % 2 = 0 THEN 400 ELSE 900]
\* keys the model presses
KeysUsed == {"w", "s"}

\* ------------------------------------------------------------------ state
VARIABLES
    isMobile,           \* constructor argument
    lawn,               \* the grass mesh's count, base colour and instance colours
    walker,             \* the player of App.tsx's own game loop: [pos, velocity, onGround, keys, tried, reset]
    loop,               \* the host's render loop: [spectator, handleLive, cleaned, renders, target]
    clock,              \* the clocks of the three loops
    tree,               \* createPineTreeGeometry's loops: [i, j, k, cones, pads]
    lastTouch,          \* Game.lastTouch: <<clientX, clientY>> of the last touch seen
    host,               \* the page around the game: mode, pointer, clock, grass uniforms, last event
    arc,                \* the player's [y, yVelocity, isJumping, gdt] in the units of a 1/60 s update
    grassMesh,          \* the host's grass: [count, capacity, at], NoMesh before createGrass
    treeMesh,           \* the host's pine trees, likewise
    pond,               \* constructor argument: [x, z, radius]
    draw,               \* placeOrb's last candidate <<x, z>>, <<>> outside the loop
    isActive, isCelebratingWin, score,
    orbs, specialOrb,   \* Seq of [id, base]; [id, base] or NoOrb
    player,             \* [pos, yaw, velocity, yVelocity, isJumping]
    keysPressed,        \* [Keys -> BOOLEAN]
    camera,             \* [pos, lookAt]
    cameraEuler,        \* [x (pitch), y (yaw)]; cameraOrbit is setFromEuler of it
    particlePool, activeParticles,
    winTimers,          \* pending setTimeout callbacks of handleWin
    listeners,          \* [Handlers -> Nat]: function objects attached
    animationFrameId,   \* TRUE: a requestAnimationFrame callback of animate is pending
    disposed,
    calls,              \* history: calls made in SpecParticles, frames in SpecCollision
    pickCount,          \* history: [orb id -> times it was scored since spawnOrbs]
    winPos,             \* history: the player's position at the last handleWin, <<>> before the first
    pendingAtTeardown   \* history: a win timer was pending at a stopGame() or dispose() and has not fired

vars == <<isMobile, lawn, walker, loop, clock, tree, lastTouch, host, arc, grassMesh, treeMesh, pond, draw, isActive, isCelebratingWin, score, orbs, specialOrb, player,
          keysPressed, camera, cameraEuler, particlePool, activeParticles, winTimers,
          listeners, animationFrameId, disposed, calls, pickCount, winPos,
          pendingAtTeardown>>

spawnPos == <<pondX, hoverHeight, pondZ>>

\* the state after new Game(...): the pool filled, setupPlayer, spawnOrbs
Init ==
    /\ isMobile \in BOOLEAN
    /\ lawn = lawnStart
    /\ walker = walkerStart
    /\ loop = loopStart
    /\ clock = clockStart
    /\ tree = treeStart
    /\ lastTouch = <<0, 0>>
    /\ host = hostInit
    /\ arc = Grounded60(gravityDelta60)
    /\ grassMesh = NoMesh
    /\ treeMesh = NoMesh
    /\ pond = defaultPond
    /\ draw = <<>>
    /\ isActive = FALSE
    /\ isCelebratingWin = FALSE
    /\ \E draws \in DrawStreams :
          LET s == spawnOrbs(draws)
          IN  orbs = s.orbs /\ specialOrb = s.specialOrb /\ score = s.score
    /\ player = [pos |-> spawnPos, yaw |-> 0, velocity |-> <<0, 0>>,
                 yVelocity |-> 0, isJumping |-> FALSE]
    /\ keysPressed = [k \in Keys |-> FALSE]
    /\ camera = [pos |-> <<-15000, 4000, 15000>>, lookAt |-> <<0, 0, 0>>]
    /\ cameraEuler = [x |-> 0, y |-> 0]
    /\ particlePool = [i \in 1..MAX_PARTICLES |-> i]
    /\ activeParticles = <<>>
    /\ winTimers = 0
    /\ listeners = [h \in Handlers |-> 0]
    /\ animationFrameId = FALSE
    /\ disposed = FALSE
    /\ calls = 0
    /\ pickCount = [i \in 1..ORB_COUNT |-> 0]
    /\ winPos = <<>>
    /\ pendingAtTeardown = FALSE

\* ------------------------------------------------------------------ update
\* the fields update() reads and writes, as one record
Game ==
    [isActive |-> isActive, player |-> player, camera |-> camera,
     orbs |-> orbs, specialOrb |-> specialOrb, score |-> score,
     isCelebratingWin |-> isCelebratingWin,
     particlePool |-> particlePool, activeParticles |-> activeParticles,
     winTimers |-> winTimers, picked |-> {}, win |-> FALSE]

\* handleWin with the setTimeout forgotten: the celebration is entered, no respawn is scheduled
handleWin_NoTimer(g) == [g EXCEPT !.isCelebratingWin = TRUE, !.win = TRUE]

\* handleWin: enter the celebration and schedule the respawn
handleWin(g) == [g EXCEPT !.isCelebratingWin = TRUE, !.winTimers = @ + 1, !.win = TRUE]

\* update, the end: the new fields, and handleWin when updateOrbs asked for it
Updated(g, p, c, o, u) ==
    [(IF o.win THEN handleWin(g) ELSE g)
        EXCEPT !.player = p, !.camera = c,
               !.orbs = o.orbs, !.specialOrb = o.specialOrb, !.score = o.score,
               !.particlePool = u.pool, !.activeParticles = u.active,
               !.picked = o.picked]

\* update after updateOrbs: one triggerOrbBurst per orb picked up, then updateParticles
UpdatedParticles(b, delta) == updateParticles(b.pool, b.active, delta)

UpdatedOrbs(g, p, c, o, delta, life) ==
    Updated(g, p, c, o,
            UpdatedParticles(Bursts(g.particlePool, g.activeParticles, life,
                                    Cardinality(o.picked)), delta))

\* update after updatePlayer: updateCamera and updateOrbs read the player's new position
UpdatedPlayer(g, p, euler, delta, phase, life) ==
    UpdatedOrbs(g, p, updateCamera(g.camera, p.pos, euler.y, euler.x, delta),
                updateOrbs(g, p.pos, phase), delta, life)

\* update(delta, elapsedTime): updatePlayer, updateCamera, updateOrbs, updateParticles
update(g, keys, euler, delta, phase, life) ==
    IF ~g.isActive THEN g
    ELSE UpdatedPlayer(g, updatePlayer(g.player, keys, euler.y, delta),
                       euler, delta, phase, life)

\* the assignment of update's result, with the history it leaves
Commit(g) ==
    /\ isActive' = g.isActive
    /\ player' = g.player
    /\ camera' = g.camera
    /\ orbs' = g.orbs
    /\ specialOrb' = g.specialOrb
    /\ score' = g.score
    /\ isCelebratingWin' = g.isCelebratingWin
    /\ particlePool' = g.particlePool
    /\ activeParticles' = g.activeParticles
    /\ winTimers' = g.winTimers
    /\ pickCount' = [i \in 1..ORB_COUNT |-> pickCount[i] + (IF i \in g.picked THEN 1 ELSE 0)]
    /\ winPos' = IF g.win THEN g.player.pos ELSE winPos
    /\ UNCHANGED pendingAtTeardown

\* the model follows the player north of the spawn, up to ArenaSteps steps of 2.5
InArena(pos) == pos[3] <= pondZ /\ pos[3] >= pondZ - ArenaSteps * 2500

CommitInArena(g) == InArena(g.player.pos) /\ Commit(g)

\* ------------------------------------------------------------------ actions
\* animate: the pending frame callback runs, asks for the next frame and updates
Animate ==
    /\ animationFrameId
    /\ \E delta \in Deltas, phase \in OrbPhases, life \in LifePatterns :
          CommitInArena(update(Game, keysPressed, cameraEuler, delta, phase, life))
    /\ UNCHANGED <<calls, isMobile, lawn, walker, loop, clock, tree, lastTouch, host, arc, grassMesh, treeMesh, pond, draw, keysPressed, cameraEuler, listeners, animationFrameId,
                   disposed>>

\* startGame(): the camera is put behind the player, the listeners are attached and
\* animate() runs at once, with the delta of a clock just started
StartGame ==
    /\ ~isActive /\ ~disposed
    /\ \A h \in JoyHandlers : listeners[h] < MaxAttached
    /\ LET euler == [x |-> startPitch, y |-> 0]
           g0 == [Game EXCEPT !.isActive = TRUE,
                              !.camera = [pos |-> VecAdd(player.pos, startOffset),
                                          lookAt |-> VecAdd(player.pos, cameraTargetOffset)]]
       IN  /\ cameraEuler' = euler
           /\ \E phase \in OrbPhases, life \in LifePatterns :
                 Commit(update(g0, keysPressed, euler, 0, phase, life))
    /\ listeners' = setupEventListeners(listeners, isMobile)
    /\ animationFrameId' = TRUE
    /\ UNCHANGED <<calls, isMobile, lawn, walker, loop, clock, tree, lastTouch, host, arc, grassMesh, treeMesh, pond, draw, keysPressed, disposed>>

\* stopGame()
StopGame ==
    /\ isActive /\ ~disposed
    /\ isActive' = FALSE
    /\ keysPressed' = [k \in Keys |-> FALSE]
    /\ player' = [player EXCEPT !.velocity = <<0, 0>>]
    /\ listeners' = disposeEventListeners(listeners, isMobile)
    /\ animationFrameId' = FALSE
    /\ pendingAtTeardown' = (pendingAtTeardown \/ winTimers > 0)
    /\ UNCHANGED <<calls, isMobile, lawn, walker, loop, clock, tree, lastTouch, host, arc, grassMesh, treeMesh, pond, draw, isCelebratingWin, score, orbs, specialOrb, camera, cameraEuler,
                   particlePool, activeParticles, winTimers, disposed, pickCount, winPos>>

\* dispose()
Dispose ==
    /\ ~disposed
    /\ disposed' = TRUE
    /\ listeners' = disposeEventListeners(listeners, isMobile)
    /\ activeParticles' = <<>>
    /\ particlePool' = <<>>
    /\ pendingAtTeardown' = (pendingAtTeardown \/ winTimers > 0)
    /\ UNCHANGED <<calls, isMobile, lawn, walker, loop, clock, tree, lastTouch, host, arc, grassMesh, treeMesh, pond, draw, isActive, isCelebratingWin, score, orbs, specialOrb, player,
                   keysPressed, camera, cameraEuler, winTimers, animationFrameId,
                   pickCount, winPos>>

\* the rounds spawnOrbs() can lay out
Rounds == {spawnOrbs(draws) : draws \in DrawStreams}

\* the timer callback with the respawn forgotten: only the flag is cleared
winTimeout_NoRespawn(round) ==
    [orbs |-> orbs, specialOrb |-> specialOrb, score |-> score, isCelebratingWin |-> FALSE]

\* what the setTimeout callback of handleWin assigns: spawnOrbs(), then the flag
winTimeout(round) ==
    [orbs |-> round.orbs, specialOrb |-> round.specialOrb, score |-> round.score,
     isCelebratingWin |-> FALSE]

\* the timer of handleWin fires
WinTimerFire ==
    /\ winTimers > 0
    /\ winTimers' = winTimers - 1
    /\ \E round \in Rounds :
          /\ orbs' = winTimeout(round).orbs
          /\ specialOrb' = winTimeout(round).specialOrb
          /\ score' = winTimeout(round).score
          /\ isCelebratingWin' = winTimeout(round).isCelebratingWin
    /\ pickCount' = [i \in 1..ORB_COUNT |-> 0]
    /\ pendingAtTeardown' = FALSE
    /\ UNCHANGED <<calls, isMobile, lawn, walker, loop, clock, tree, lastTouch, host, arc, grassMesh, treeMesh, pond, draw, isActive, player, keysPressed, camera, cameraEuler,
                   particlePool, activeParticles, listeners, animationFrameId, disposed,
                   winPos>>

\* what a key handler leaves alone
exceptKeys == <<calls, isMobile, lawn, walker, loop, clock, tree, lastTouch, host, arc, grassMesh, treeMesh, pond, draw, isActive, isCelebratingWin, score, orbs, specialOrb, player,
                camera, cameraEuler, particlePool, activeParticles, winTimers,
                listeners, animationFrameId, disposed, pickCount, winPos,
                pendingAtTeardown>>

\* handleKeyDown for a movement key
KeyDown ==
    /\ listeners[<<"window", "keydown">>] > 0
    /\ \E k \in KeysUsed : keysPressed' = [keysPressed EXCEPT ![k] = TRUE]
    /\ UNCHANGED exceptKeys

\* handleKeyUp
KeyUp ==
    /\ listeners[<<"window", "keyup">>] > 0
    /\ \E k \in KeysUsed : keysPressed' = [keysPressed EXCEPT ![k] = FALSE]
    /\ UNCHANGED exceptKeys

\* handleKeyDown for the space bar: jump()
KeySpace ==
    /\ listeners[<<"window", "keydown">>] > 0
    /\ player' = jump(player)
    /\ UNCHANGED <<calls, isMobile, lawn, walker, loop, clock, tree, lastTouch, host, arc, grassMesh, treeMesh, pond, draw, isActive, isCelebratingWin, score, orbs, specialOrb,
                   keysPressed, camera, cameraEuler, particlePool, activeParticles,
                   winTimers, listeners, animationFrameId, disposed, pickCount, winPos,
                   pendingAtTeardown>>

\* a touchstart / touchend on a joystick button: every closure attached to it runs
JoyTouch ==
    /\ \E k \in KeysUsed, v \in BOOLEAN :
          /\ listeners[<<JoyButton(k), JoyEvent(v)>>] > 0
          /\ keysPressed' = [keysPressed EXCEPT ![k] = v]
    /\ UNCHANGED <<calls, isMobile, lawn, walker, loop, clock, tree, lastTouch, host, arc, grassMesh, treeMesh, pond, draw, isActive, isCelebratingWin, score, orbs, specialOrb, player,
                   camera, cameraEuler, particlePool, activeParticles, winTimers,
                   listeners, animationFrameId, disposed, pickCount, winPos,
                   pendingAtTeardown>>

\* a touchstart on the jump button: jump()
JumpTouch ==
    /\ listeners[<<"jump-btn", "touchstart">>] > 0
    /\ player' = jump(player)
    /\ UNCHANGED <<calls, isMobile, lawn, walker, loop, clock, tree, lastTouch, host, arc, grassMesh, treeMesh, pond, draw, isActive, isCelebratingWin, score, orbs, specialOrb,
                   keysPressed, camera, cameraEuler, particlePool, activeParticles,
                   winTimers, listeners, animationFrameId, disposed, pickCount, winPos,
                   pendingAtTeardown>>

Next ==
    \/ Animate
    \/ StartGame
    \/ StopGame
    \/ Dispose
    \/ WinTimerFire
    \/ KeyDown
    \/ KeySpace
    \/ KeyUp
    \/ JoyTouch
    \/ JumpTouch

Spec == Init /\ [][Next]_vars

\* ------------------------------------------------------------------ the particle pool alone
\* one call of triggerOrbBurst(position, color)
TriggerOrbBurst ==
    /\ calls < MaxCalls
    /\ calls' = calls + 1
    /\ LET b == triggerOrbBurst(particlePool, activeParticles, MixedLife, 1)
       IN  particlePool' = b.pool /\ activeParticles' = b.active
    /\ UNCHANGED <<isMobile, lawn, walker, loop, clock, tree, lastTouch, host, arc, grassMesh, treeMesh, pond, draw, isActive, isCelebratingWin, score, orbs, specialOrb, player,
                   keysPressed, camera, cameraEuler, winTimers, listeners, animationFrameId,
                   disposed, pickCount, winPos, pendingAtTeardown>>

\* one call of updateParticles(delta)
UpdateParticles ==
    /\ calls < MaxCalls
    /\ calls' = calls + 1
    /\ \E delta \in Deltas :
          LET u == updateParticles(particlePool, activeParticles, delta)
          IN  particlePool' = u.pool /\ activeParticles' = u.active
    /\ UNCHANGED <<isMobile, lawn, walker, loop, clock, tree, lastTouch, host, arc, grassMesh, treeMesh, pond, draw, isActive, isCelebratingWin, score, orbs, specialOrb, player,
                   keysPressed, camera, cameraEuler, winTimers, listeners, animationFrameId,
                   disposed, pickCount, winPos, pendingAtTeardown>>

NextParticles == TriggerOrbBurst \/ UpdateParticles

\* any sequence of triggerOrbBurst and updateParticles calls on a fresh Game
SpecParticles == Init /\ [][NextParticles]_vars

\* ------------------------------------------------------------------ the player beside the monolith
\* frame times of a host running at 10 frames a second
SlowDeltas == {100}

\* places beside the monolith where the player stands at rest, facing -z:
\* in front of its +z face (0.05, 0.4 and 1.0 clear of it), beside its +x face, off a corner
StartSpots ==
    {<<0, hoverHeight, -14200>>, <<0, hoverHeight, -13850>>, <<0, hoverHeight, -13250>>,
     <<1300, hoverHeight, -15000>>, <<1200, hoverHeight, -14000>>}

NearMonolith(pos) == Abs(pos[1] - monolithCX) <= 3000 /\ Abs(pos[3] - monolithCZ) <= 3000

CommitNearMonolith(g) == NearMonolith(g.player.pos) /\ Commit(g)

\* a running desktop game whose player has walked up to the monolith and stopped
InitCollision ==
    /\ isMobile = FALSE
    /\ lawn = lawnStart
    /\ walker = walkerStart
    /\ loop = loopStart
    /\ clock = clockStart
    /\ tree = treeStart
    /\ lastTouch = <<0, 0>>
    /\ host = hostInit
    /\ arc = Grounded60(gravityDelta60)
    /\ grassMesh = NoMesh
    /\ treeMesh = NoMesh
    /\ pond = defaultPond
    /\ draw = <<>>
    /\ isActive = TRUE
    /\ isCelebratingWin = FALSE
    /\ \E draws \in DrawStreams :
          LET s == spawnOrbs(draws)
          IN  orbs = s.orbs /\ specialOrb = s.specialOrb /\ score = s.score
    /\ \E pos \in StartSpots :
          /\ ~intersectsBox(playerBBox(pos, 0), monolithBBox)
          /\ player = [pos |-> pos, yaw |-> 0, velocity |-> <<0, 0>>,
                       yVelocity |-> 0, isJumping |-> FALSE]
          /\ camera = [pos |-> VecAdd(pos, startOffset),
                       lookAt |-> VecAdd(pos, cameraTargetOffset)]
    /\ keysPressed = [k \in Keys |-> FALSE]
    /\ cameraEuler = [x |-> startPitch, y |-> 0]
    /\ particlePool = [i \in 1..MAX_PARTICLES |-> i]
    /\ activeParticles = <<>>
    /\ winTimers = 0
    /\ listeners = setupEventListeners([h \in Handlers |-> 0], FALSE)
    /\ animationFrameId = TRUE
    /\ disposed = FALSE
    /\ calls = 0
    /\ pickCount = [i \in 1..ORB_COUNT |-> 0]
    /\ winPos = <<>>
    /\ pendingAtTeardown = FALSE

\* animate, for at most MaxFrames frames
AnimateSlow ==
    /\ calls < MaxFrames
    /\ calls' = calls + 1
    /\ animationFrameId
    /\ \E delta \in SlowDeltas, phase \in OrbPhases, life \in LifePatterns :
          CommitNearMonolith(update(Game, keysPressed, cameraEuler, delta, phase, life))
    /\ UNCHANGED <<isMobile, lawn, walker, loop, clock, tree, lastTouch, host, arc, grassMesh, treeMesh, pond, draw, keysPressed, cameraEuler, listeners, animationFrameId, disposed>>

\* handleKeyDown and handleKeyUp for any of the four movement keys
KeyDownAny ==
    /\ listeners[<<"window", "keydown">>] > 0
    /\ \E k \in Keys : keysPressed' = [keysPressed EXCEPT ![k] = TRUE]
    /\ UNCHANGED exceptKeys

KeyUpAny ==
    /\ listeners[<<"window", "keyup">>] > 0
    /\ \E k \in Keys : keysPressed' = [keysPressed EXCEPT ![k] = FALSE]
    /\ UNCHANGED exceptKeys

NextCollision == AnimateSlow \/ KeyDownAny \/ KeyUpAny \/ KeySpace

SpecCollision == InitCollision /\ [][NextCollision]_vars

\* ------------------------------------------------------------------ spawnOrbs, draw by draw
\* the candidates Math.random can give placeOrb: the far corner of the square, points at
\* exactly the required distance from the pond and from the monolith, a point far from
\* both, and points inside each exclusion zone
Candidates ==
    { <<-22500, -22500>>, <<-6000, 5000>>, <<2400, -15000>>, <<-20000, 10000>>,
      <<10000, 5000>>, <<-5999, 5000>>, <<2399, -15000>>, <<0, -15000>> }

\* the host's pond, and one so wide that pond.radius + 1 reaches past the far corner
Ponds == { defaultPond, [defaultPond EXCEPT !.radius = 42000] }

\* the state on entry to spawnOrbs in the constructor, after the old orbs are cleared
InitPlacement ==
    /\ isMobile \in BOOLEAN
    /\ lawn = lawnStart
    /\ walker = walkerStart
    /\ loop = loopStart
    /\ clock = clockStart
    /\ tree = treeStart
    /\ lastTouch = <<0, 0>>
    /\ host = hostInit
    /\ arc = Grounded60(gravityDelta60)
    /\ grassMesh = NoMesh
    /\ treeMesh = NoMesh
    /\ pond \in Ponds
    /\ draw = <<>>
    /\ isActive = FALSE
    /\ isCelebratingWin = FALSE
    /\ orbs = <<>> /\ specialOrb = NoOrb /\ score = 0
    /\ player = [pos |-> spawnPos, yaw |-> 0, velocity |-> <<0, 0>>,
                 yVelocity |-> 0, isJumping |-> FALSE]
    /\ keysPressed = [k \in Keys |-> FALSE]
    /\ camera = [pos |-> <<-15000, 4000, 15000>>, lookAt |-> <<0, 0, 0>>]
    /\ cameraEuler = [x |-> 0, y |-> 0]
    /\ particlePool = [i \in 1..MAX_PARTICLES |-> i]
    /\ activeParticles = <<>>
    /\ winTimers = 0
    /\ listeners = [h \in Handlers |-> 0]
    /\ animationFrameId = FALSE
    /\ disposed = FALSE
    /\ calls = 0
    /\ pickCount = [i \in 1..ORB_COUNT |-> 0]
    /\ winPos = <<>>
    /\ pendingAtTeardown = FALSE

\* spawnOrbs has not placed all its orbs yet: some placeOrb loop is running
Placing == specialOrb = NoOrb \/ Len(orbs) < ORB_COUNT - 1

\* one turn of placeOrb's loop whose candidate passes the test: the orb is placed, the
\* special one first, then the normal ones in push order; spawnOrbs ends with score = 0
DrawAccepted ==
    /\ Placing
    /\ \E d \in Candidates :
          /\ ValidPositionOf(pond, d)
          /\ draw' = d
          /\ IF specialOrb = NoOrb
             THEN specialOrb' = [id |-> SpecialId, base |-> d] /\ orbs' = orbs
             ELSE orbs' = Append(orbs, [id |-> Len(orbs) + 1, base |-> d])
                  /\ specialOrb' = specialOrb
    /\ score' = 0
    /\ UNCHANGED <<isMobile, lawn, walker, loop, clock, tree, lastTouch, host, arc, grassMesh, treeMesh, pond, isActive, isCelebratingWin, player, keysPressed, camera,
                   cameraEuler, particlePool, activeParticles, winTimers, listeners,
                   animationFrameId, disposed, calls, pickCount, winPos, pendingAtTeardown>>

\* one turn of placeOrb's loop whose candidate fails the test: validPosition stays false
DrawRejected ==
    /\ Placing
    /\ \E d \in Candidates :
          /\ ~ValidPositionOf(pond, d)
          /\ draw' = d
    /\ UNCHANGED <<isMobile, lawn, walker, loop, clock, tree, lastTouch, host, arc, grassMesh, treeMesh, pond, isActive, isCelebratingWin, score, orbs, specialOrb, player,
                   keysPressed, camera, cameraEuler, particlePool, activeParticles, winTimers,
                   listeners, animationFrameId, disposed, calls, pickCount, winPos,
                   pendingAtTeardown>>

NextPlacement == DrawAccepted \/ DrawRejected

\* spawnOrbs of the constructor, one random draw at a time
SpecPlacement == InitPlacement /\ [][NextPlacement]_vars

\* Math.random is fair: a candidate that passes the test is drawn sooner or later
FairPlacement == SpecPlacement /\ WF_vars(DrawAccepted)

\* ------------------------------------------------------------------ the host's vegetation
\* draws of createGrass: the corner of the field, a point at exactly the pond's radius,
\* the monolith's centre, a point beside the monolith, and two points in the pond
GrassDraws ==
    { <<-25000, -25000>>, <<-5000, 5000>>, <<0, -15000>>, <<3000, -15000>>,
      <<10000, 5000>>, <<-4999, 5000>> }

\* draws of createPineTrees: on and beyond the edge of the tree-free square, a point at
\* its corner near the pond, the monolith's centre, the pond's centre and a point
\* outside the square but within the pond's margin
TreeDraws ==
    { <<-25000, -25000>>, <<0, -20000>>, <<20000, 20000>>,
      <<0, -15000>>, <<10000, 5000>>, <<21000, 5000>> }

\* params.grassCount and maxGrassCount as callers of createGrass have passed them
GrassCounts == {50000, 150000}
Capacities == {maxGrassCount, 200000}

\* stops of the Grass Density slider (1000 to maxGrassCount in steps of 1000) and of the
\* Tree Density slider (0 to maxTreeCount in steps of 1)
GrassStops == {1000, 25000, maxGrassCount}
TreeStops == 0..maxTreeCount

InitVegetation ==
    /\ isMobile = FALSE
    /\ lawn = lawnStart
    /\ walker = walkerStart
    /\ loop = loopStart
    /\ clock = clockStart
    /\ tree = treeStart
    /\ lastTouch = <<0, 0>>
    /\ host = hostInit
    /\ arc = Grounded60(gravityDelta60)
    /\ pond = defaultPond
    /\ grassMesh = NoMesh /\ treeMesh = NoMesh
    /\ draw = <<>>
    /\ isActive = FALSE
    /\ isCelebratingWin = FALSE
    /\ orbs = <<>> /\ specialOrb = NoOrb /\ score = 0
    /\ player = [pos |-> spawnPos, yaw |-> 0, velocity |-> <<0, 0>>,
                 yVelocity |-> 0, isJumping |-> FALSE]
    /\ keysPressed = [k \in Keys |-> FALSE]
    /\ camera = [pos |-> <<-15000, 4000, 15000>>, lookAt |-> <<0, 0, 0>>]
    /\ cameraEuler = [x |-> 0, y |-> 0]
    /\ particlePool = [i \in 1..MAX_PARTICLES |-> i]
    /\ activeParticles = <<>>
    /\ winTimers = 0
    /\ listeners = [h \in Handlers |-> 0]
    /\ animationFrameId = FALSE
    /\ disposed = FALSE
    /\ calls = 0
    /\ pickCount = [i \in 1..ORB_COUNT |-> 0]
    /\ winPos = <<>>
    /\ pendingAtTeardown = FALSE

exceptMeshes == <<isMobile, lawn, walker, loop, clock, tree, lastTouch, host, arc, pond, draw, isActive, isCelebratingWin, score, orbs, specialOrb,
                  player, keysPressed, camera, cameraEuler, particlePool, activeParticles,
                  winTimers, listeners, animationFrameId, disposed, calls, pickCount, winPos,
                  pendingAtTeardown>>

CreateGrass ==
    /\ grassMesh = NoMesh
    /\ \E grassCount \in GrassCounts, maxCount \in Capacities :
       \E at \in SUBSET {d \in GrassDraws : InField(d) /\ ~grassRejects(pond, d)} :
          /\ at # {}
          /\ grassMesh' = createGrass(grassCount, maxCount, at)
    /\ UNCHANGED treeMesh
    /\ UNCHANGED exceptMeshes

CreatePineTrees ==
    /\ treeMesh = NoMesh
    /\ \E at \in SUBSET {d \in TreeDraws : InField(d) /\ ~treeRejects(pond, d)} :
          /\ at # {}
          /\ treeMesh' = createPineTrees(at)
    /\ UNCHANGED grassMesh
    /\ UNCHANGED exceptMeshes

GrassDensity ==
    /\ grassMesh # NoMesh
    /\ \E value \in GrassStops : grassMesh' = setCount(grassMesh, value)
    /\ UNCHANGED treeMesh
    /\ UNCHANGED exceptMeshes

TreeDensity ==
    /\ treeMesh # NoMesh
    /\ \E value \in TreeStops : treeMesh' = setCount(treeMesh, value)
    /\ UNCHANGED grassMesh
    /\ UNCHANGED exceptMeshes

NextVegetation == CreateGrass \/ CreatePineTrees \/ GrassDensity \/ TreeDensity

\* the host building its vegetation and the user moving the density sliders
SpecVegetation == InitVegetation /\ [][NextVegetation]_vars

\* ------------------------------------------------------------------ one jump, update by update
\* updates followed after a launch
MaxFlight == 60

InitJump ==
    /\ isMobile \in BOOLEAN
    /\ lawn = lawnStart
    /\ walker = walkerStart
    /\ loop = loopStart
    /\ clock = clockStart
    /\ tree = treeStart
    /\ lastTouch = <<0, 0>>
    /\ host = hostInit
    /\ \E e \in RoundErr : arc = Grounded60(gravityDelta60 + e)
    /\ pond = defaultPond
    /\ grassMesh = NoMesh /\ treeMesh = NoMesh
    /\ draw = <<>>
    /\ isActive = TRUE
    /\ isCelebratingWin = FALSE
    /\ \E draws \in DrawStreams :
          LET s == spawnOrbs(draws)
          IN  orbs = s.orbs /\ specialOrb = s.specialOrb /\ score = s.score
    /\ player = [pos |-> spawnPos, yaw |-> 0, velocity |-> <<0, 0>>,
                 yVelocity |-> 0, isJumping |-> FALSE]
    /\ keysPressed = [k \in Keys |-> FALSE]
    /\ camera = [pos |-> <<-15000, 4000, 15000>>, lookAt |-> <<0, 0, 0>>]
    /\ cameraEuler = [x |-> 0, y |-> 0]
    /\ particlePool = [i \in 1..MAX_PARTICLES |-> i]
    /\ activeParticles = <<>>
    /\ winTimers = 0
    /\ listeners = setupEventListeners([h \in Handlers |-> 0], isMobile)
    /\ animationFrameId = TRUE
    /\ disposed = FALSE
    /\ calls = 0
    /\ pickCount = [i \in 1..ORB_COUNT |-> 0]
    /\ winPos = <<>>
    /\ pendingAtTeardown = FALSE

exceptArc == <<isMobile, lawn, walker, loop, clock, tree, lastTouch, host, pond, grassMesh, treeMesh, draw, isActive, isCelebratingWin, score,
               orbs, specialOrb, player, keysPressed, camera, cameraEuler, particlePool,
               activeParticles, winTimers, listeners, animationFrameId, disposed, pickCount,
               winPos, pendingAtTeardown>>

\* the Space key or the jump button: jump(); calls counts the updates since the launch
JumpRequest ==
    /\ arc' = jump60(arc)
    /\ calls' = IF arc.isJumping THEN calls ELSE 0
    /\ UNCHANGED exceptArc

\* update(1/60, ...) with no movement key held: the jump block of updatePlayer
Update60 ==
    /\ arc.isJumping
    /\ calls < MaxFlight
    /\ \E err \in RoundErr : arc' = Vertical60(arc, err)
    /\ calls' = calls + 1
    /\ UNCHANGED exceptArc

\* update(1/60, ...) on the ground: the jump block is skipped
UpdateGrounded60 ==
    /\ ~arc.isJumping
    /\ arc' = Vertical60(arc, 0)
    /\ UNCHANGED calls
    /\ UNCHANGED exceptArc

NextJump == JumpRequest \/ Update60 \/ UpdateGrounded60

\* a running game at a fixed 60 updates a second, the player jumping on the spot
SpecJump == InitJump /\ [][NextJump]_vars

\* ------------------------------------------------------------------ the host page and the game
\* frames followed, in ticks of the host's clock
MaxElapsed == 5

exceptHost == <<isMobile, lawn, walker, loop, clock, tree, lastTouch, arc, grassMesh, treeMesh, pond, draw, isActive, isCelebratingWin,
                score, orbs, specialOrb, player, keysPressed, camera, cameraEuler,
                particlePool, activeParticles, winTimers, listeners, animationFrameId,
                disposed, calls, pickCount, winPos, pendingAtTeardown>>

\* the spectator loop's frame
AnimateSpectator ==
    /\ host.gameState = "spectator"
    /\ host.elapsed < MaxElapsed
    /\ host' = animateSpectator(host)
    /\ UNCHANGED exceptHost

\* handleMouseMove: ignored outside spectator mode
MouseMove ==
    /\ host.gameState = "spectator"
    /\ \E m \in Pointers : host' = [host EXCEPT !.mouse = m, !.lastEvent = "mousemove"]
    /\ UNCHANGED exceptHost

\* handleClick on a desktop, the cube hovered: document.body.requestPointerLock()
ClickDesktop ==
    /\ host.gameState = "spectator" /\ host.hovered /\ ~isMobile
    /\ host' = [host EXCEPT !.lockRequested = TRUE, !.lastEvent = "click"]
    /\ UNCHANGED exceptHost

\* handleClick on a mobile, the cube hovered: the spectator loop is cancelled and
\* game.startGame() runs
ClickMobile ==
    /\ host.gameState = "spectator" /\ host.hovered /\ isMobile
    /\ host.elapsed < MaxElapsed
    /\ ~disposed
    /\ host' = hostStarted(host, "click")
    /\ LET euler == [x |-> startPitch, y |-> 0]
           g0 == [Game EXCEPT !.isActive = TRUE,
                              !.camera = [pos |-> VecAdd(player.pos, startOffset),
                                          lookAt |-> VecAdd(player.pos, cameraTargetOffset)]]
       IN  /\ cameraEuler' = euler
           /\ \E phase \in OrbPhases, life \in LifePatterns :
                 Commit(update(g0, keysPressed, euler, 0, phase, life))
    /\ listeners' = setupEventListeners(listeners, isMobile)
    /\ animationFrameId' = TRUE
    /\ UNCHANGED <<calls, isMobile, lawn, walker, loop, clock, tree, lastTouch, arc, grassMesh, treeMesh, pond, draw, keysPressed, disposed>>

\* handlePointerLockChange, the lock granted: the same start
PointerLock ==
    /\ host.lockRequested /\ ~host.locked
    /\ host.elapsed < MaxElapsed
    /\ ~disposed
    /\ host' = [hostStarted(host, "pointerlockchange") EXCEPT !.lockRequested = FALSE,
                                                             !.locked = TRUE]
    /\ LET euler == [x |-> startPitch, y |-> 0]
           g0 == [Game EXCEPT !.isActive = TRUE,
                              !.camera = [pos |-> VecAdd(player.pos, startOffset),
                                          lookAt |-> VecAdd(player.pos, cameraTargetOffset)]]
       IN  /\ cameraEuler' = euler
           /\ \E phase \in OrbPhases, life \in LifePatterns :
                 Commit(update(g0, keysPressed, euler, 0, phase, life))
    /\ listeners' = setupEventListeners(listeners, isMobile)
    /\ animationFrameId' = TRUE
    /\ UNCHANGED <<calls, isMobile, lawn, walker, loop, clock, tree, lastTouch, arc, grassMesh, treeMesh, pond, draw, keysPressed, disposed>>

\* handlePointerLockChange, the lock released (Escape): game.stopGame(), the camera
\* back at the spectator's place, animateSpectator() at once
PointerUnlock ==
    /\ host.locked /\ ~isMobile
    /\ host.elapsed < MaxElapsed
    /\ host' = [animateSpectator([host EXCEPT !.gameState = "spectator", !.locked = FALSE])
                   EXCEPT !.lastEvent = "pointerlockchange"]
    /\ isActive' = FALSE
    /\ keysPressed' = [k \in Keys |-> FALSE]
    /\ player' = [player EXCEPT !.velocity = <<0, 0>>]
    /\ listeners' = disposeEventListeners(listeners, isMobile)
    /\ animationFrameId' = FALSE
    /\ pendingAtTeardown' = (pendingAtTeardown \/ winTimers > 0)
    /\ camera' = [camera EXCEPT !.pos = <<-15000, 4000, 15000>>]
    /\ UNCHANGED <<calls, isMobile, lawn, walker, loop, clock, tree, lastTouch, arc, grassMesh, treeMesh, pond, draw, isCelebratingWin,
                   score, orbs, specialOrb, cameraEuler, particlePool, activeParticles,
                   winTimers, disposed, pickCount, winPos>>

\* Game.animate while the game runs: update and composer.render(); the host's clock
\* has gone on
GameFrame ==
    /\ animationFrameId
    /\ host.elapsed < MaxElapsed
    /\ host' = [host EXCEPT !.elapsed = host.elapsed + 1, !.lastEvent = "frame"]
    /\ \E delta \in SlowDeltas, phase \in OrbPhases, life \in LifePatterns :
          CommitInArena(update(Game, keysPressed, cameraEuler, delta, phase, life))
    /\ UNCHANGED <<calls, isMobile, lawn, walker, loop, clock, tree, lastTouch, arc, grassMesh, treeMesh, pond, draw, keysPressed,
                   cameraEuler, listeners, animationFrameId, disposed>>

\* the Space key goes down: every keydown listener on window runs; the host has none,
\* the game's handleKeyDown is attached between startGame and stopGame on a desktop
SpaceDown ==
    /\ host' = [host EXCEPT !.lastEvent = "space"]
    /\ player' = IF listeners[<<"window", "keydown">>] > 0 THEN jump(player) ELSE player
    /\ UNCHANGED <<isMobile, lawn, walker, loop, clock, tree, lastTouch, arc, grassMesh, treeMesh, pond, draw, isActive, isCelebratingWin,
                   score, orbs, specialOrb, keysPressed, camera, cameraEuler, particlePool,
                   activeParticles, winTimers, listeners, animationFrameId, disposed, calls,
                   pickCount, winPos, pendingAtTeardown>>

NextHost ==
    \/ AnimateSpectator \/ MouseMove \/ ClickDesktop \/ ClickMobile
    \/ PointerLock \/ PointerUnlock \/ GameFrame \/ SpaceDown

\* the page from load: spectator mode, the game started by a click and left by Escape
SpecHost == Init /\ [][NextHost]_vars

\* ------------------------------------------------------------------ turning the camera
\* movementX, movementY of mousemove events, in pixels
MouseMoves == { <<0, 100>>, <<0, -100>>, <<785, -1300>>, <<-785, 1300>> }
\* clientX, clientY of touches
Touches == { <<0, 0>>, <<0, 50>>, <<393, 700>> }
\* the yaw followed, in degrees either way
MaxYaw == 180

\* a mousemove on the document: handleDesktopMouseMove runs if it is attached
DesktopMouseMove ==
    /\ \E movement \in MouseMoves :
          cameraEuler' =
              IF listeners[<<"document", "mousemove">>] > 0 /\ isActive /\ host.locked
              THEN turnCamera(cameraEuler, movement, mouseTurn)
              ELSE cameraEuler
    /\ Abs(cameraEuler'.y) <= MaxYaw
    /\ host' = [host EXCEPT !.lastEvent = "mousemove"]
    /\ UNCHANGED <<isMobile, lawn, walker, loop, clock, tree, lastTouch, arc, grassMesh, treeMesh, pond, draw, isActive,
                   isCelebratingWin, score, orbs, specialOrb, player, keysPressed, camera,
                   particlePool, activeParticles, winTimers, listeners, animationFrameId,
                   disposed, calls, pickCount, winPos, pendingAtTeardown>>

\* a touchstart on the canvas: handleTouchStart runs if it is attached
TouchStart ==
    /\ \E touch \in Touches :
          lastTouch' = IF listeners[<<"canvas", "touchstart">>] > 0 THEN touch ELSE lastTouch
    /\ host' = [host EXCEPT !.lastEvent = "touchstart"]
    /\ UNCHANGED <<isMobile, lawn, walker, loop, clock, tree, arc, grassMesh, treeMesh, pond, draw, isActive,
                   isCelebratingWin, score, orbs, specialOrb, player, keysPressed, camera,
                   cameraEuler, particlePool, activeParticles, winTimers, listeners,
                   animationFrameId, disposed, calls, pickCount, winPos, pendingAtTeardown>>

\* a touchmove on the canvas: handleTouchMove runs if it is attached
TouchMove ==
    /\ \E touch \in Touches :
          IF listeners[<<"canvas", "touchmove">>] > 0 /\ isActive
          THEN /\ cameraEuler' = turnCamera(cameraEuler,
                                            <<touch[1] - lastTouch[1], touch[2] - lastTouch[2]>>,
                                            touchTurn)
               /\ lastTouch' = touch
          ELSE UNCHANGED <<cameraEuler, lastTouch>>
    /\ Abs(cameraEuler'.y) <= MaxYaw
    /\ host' = [host EXCEPT !.lastEvent = "touchmove"]
    /\ UNCHANGED <<isMobile, lawn, walker, loop, clock, tree, arc, grassMesh, treeMesh, pond, draw, isActive,
                   isCelebratingWin, score, orbs, specialOrb, player, keysPressed, camera,
                   particlePool, activeParticles, winTimers, listeners, animationFrameId,
                   disposed, calls, pickCount, winPos, pendingAtTeardown>>

NextCamera ==
    \/ AnimateSpectator \/ MouseMove \/ ClickDesktop \/ ClickMobile
    \/ PointerLock \/ PointerUnlock \/ DesktopMouseMove \/ TouchStart \/ TouchMove

\* the page with the game started and stopped and the pointer and the finger moving;
\* no frame of the game is followed
SpecCamera == Init /\ [][NextCamera]_vars

\* ------------------------------------------------------------------ building the tree geometry
exceptTree == <<isMobile, lawn, walker, loop, clock, lastTouch, host, arc, grassMesh, treeMesh, pond, draw, isActive,
                isCelebratingWin, score, orbs, specialOrb, player, keysPressed, camera,
                cameraEuler, particlePool, activeParticles, winTimers, listeners,
                animationFrameId, disposed, calls, pickCount, winPos, pendingAtTeardown>>

BeginBranch ==
    /\ tree.i < branchLevels /\ tree.k = 0
    /\ tree' = beginBranch(tree)
    /\ UNCHANGED exceptTree

PadTurn ==
    /\ tree.i < branchLevels /\ tree.k > 0
    /\ tree' = padTurn(tree)
    /\ UNCHANGED exceptTree

NextTree == BeginBranch \/ PadTurn

\* createPineTreeGeometry, from the first level to the last
SpecTree == Init /\ [][NextTree]_vars

\* ------------------------------------------------------------------ the jump across frames of any length
\* frame times from a repeated timestamp (0) to a stalled tab (0.5 s)
FlightDeltas == {0, 100, 500}

\* animate with one of these frame times
FlightFrame ==
    /\ animationFrameId
    /\ \E delta \in FlightDeltas, phase \in OrbPhases, life \in LifePatterns :
          CommitInArena(update(Game, keysPressed, cameraEuler, delta, phase, life))
    /\ UNCHANGED <<calls, isMobile, lawn, walker, loop, clock, tree, lastTouch, host, arc, grassMesh, treeMesh, pond, draw,
                   keysPressed, cameraEuler, listeners, animationFrameId, disposed>>

NextFlight == FlightFrame \/ StartGame \/ StopGame \/ KeySpace \/ JumpTouch

\* jump requests, frames, stopGame and startGame in any order
SpecFlight == Init /\ [][NextFlight]_vars

\* ------------------------------------------------------------------ the host's loops, start to cleanup
\* the composer.render() calls a behaviour is followed for
MaxRenders == 4

exceptLoop == <<isMobile, lawn, walker, tree, clock, lastTouch, arc, grassMesh, treeMesh, pond, draw, isActive,
                isCelebratingWin, score, orbs, specialOrb, player, keysPressed, camera,
                cameraEuler, particlePool, activeParticles, winTimers, listeners,
                animationFrameId, disposed, calls, pickCount, winPos, pendingAtTeardown>>

\* a pending animateSpectator callback runs: it asks for the next frame, runs the hover
\* logic and renders; it does not look at gameState
SpectatorCallback ==
    /\ loop.spectator > 0
    /\ loop.renders < MaxRenders
    /\ host' = animateSpectator(host)
    /\ loop' = [loop EXCEPT !.handleLive = TRUE, !.renders = @ + 1,
                            !.target = hoverLogic(host, loop, isActive).target]
    /\ UNCHANGED exceptLoop

\* handleMouseMove while the host's listeners are attached
HostMouseMove ==
    /\ ~loop.cleaned
    /\ host.gameState = "spectator"
    /\ \E m \in Pointers : host' = [host EXCEPT !.mouse = m, !.lastEvent = "mousemove"]
    /\ UNCHANGED <<loop>>
    /\ UNCHANGED exceptLoop

\* handleClick on a desktop, the cube hovered: document.body.requestPointerLock()
HostClickDesktop ==
    /\ ~loop.cleaned
    /\ host.gameState = "spectator" /\ host.hovered /\ ~isMobile
    /\ host' = [host EXCEPT !.lockRequested = TRUE, !.lastEvent = "click"]
    /\ UNCHANGED <<loop>>
    /\ UNCHANGED exceptLoop

\* handleClick on a mobile, the cube hovered: cancelAnimationFrame(animationFrameId),
\* game.startGame(), whose animate() renders at once, then game.setPlayerHover(false)
HostClickMobile ==
    /\ ~loop.cleaned
    /\ host.gameState = "spectator" /\ host.hovered /\ isMobile
    /\ loop.renders < MaxRenders
    /\ host' = hostStarted(host, "click")
    /\ loop' = [cancelSpectator(loop) EXCEPT !.renders = @ + 1,
                                             !.target = startedTarget(host, loop)]
    /\ LET euler == [x |-> startPitch, y |-> 0]
           g0 == [Game EXCEPT !.isActive = TRUE,
                              !.camera = [pos |-> VecAdd(player.pos, startOffset),
                                          lookAt |-> VecAdd(player.pos, cameraTargetOffset)]]
       IN  /\ cameraEuler' = euler
           /\ \E phase \in OrbPhases, life \in LifePatterns :
                 Commit(update(g0, keysPressed, euler, 0, phase, life))
    /\ listeners' = setupEventListeners(listeners, isMobile)
    /\ animationFrameId' = TRUE
    /\ UNCHANGED <<calls, isMobile, lawn, walker, tree, clock, lastTouch, arc, grassMesh, treeMesh, pond, draw,
                   keysPressed, disposed>>

\* handlePointerLockChange, document.pointerLockElement === document.body: the same
HostPointerLock ==
    /\ ~loop.cleaned
    /\ host.lockRequested /\ ~host.locked
    /\ loop.renders < MaxRenders
    /\ host' = [hostStarted(host, "pointerlockchange") EXCEPT !.lockRequested = FALSE,
                                                             !.locked = TRUE]
    /\ loop' = [cancelSpectator(loop) EXCEPT !.renders = @ + 1,
                                             !.target = startedTarget(host, loop)]
    /\ LET euler == [x |-> startPitch, y |-> 0]
           g0 == [Game EXCEPT !.isActive = TRUE,
                              !.camera = [pos |-> VecAdd(player.pos, startOffset),
                                          lookAt |-> VecAdd(player.pos, cameraTargetOffset)]]
       IN  /\ cameraEuler' = euler
           /\ \E phase \in OrbPhases, life \in LifePatterns :
                 Commit(update(g0, keysPressed, euler, 0, phase, life))
    /\ listeners' = setupEventListeners(listeners, isMobile)
    /\ animationFrameId' = TRUE
    /\ UNCHANGED <<calls, isMobile, lawn, walker, tree, clock, lastTouch, arc, grassMesh, treeMesh, pond, draw,
                   keysPressed, disposed>>

\* handlePointerLockChange, the lock released: game.stopGame(), the camera back at the
\* spectator's place, and animateSpectator() called at once; the pointer is wherever it
\* was moved to while the game ran
HostPointerRelease ==
    /\ ~loop.cleaned /\ ~isMobile
    /\ host.locked
    /\ loop.renders < MaxRenders
    /\ \E m \in Pointers :
          LET h == [host EXCEPT !.gameState = "spectator", !.locked = FALSE, !.mouse = m]
          IN  /\ host' = [animateSpectator(h) EXCEPT !.lastEvent = "pointerlockchange"]
              /\ loop' = [requestSpectator(loop)
                             EXCEPT !.renders = @ + 1,
                                    !.target = hoverLogic(h, loop, FALSE).target]
    /\ isActive' = FALSE
    /\ keysPressed' = [k \in Keys |-> FALSE]
    /\ player' = [player EXCEPT !.velocity = <<0, 0>>]
    /\ listeners' = disposeEventListeners(listeners, isMobile)
    /\ animationFrameId' = FALSE
    /\ pendingAtTeardown' = (pendingAtTeardown \/ winTimers > 0)
    /\ camera' = [camera EXCEPT !.pos = <<-15000, 4000, 15000>>]
    /\ UNCHANGED <<calls, isMobile, lawn, walker, tree, clock, lastTouch, arc, grassMesh, treeMesh, pond, draw,
                   isCelebratingWin, score, orbs, specialOrb, cameraEuler, particlePool,
                   activeParticles, winTimers, disposed, pickCount, winPos>>

\* handlePointerLockChange with no pointerLockElement while the host holds no lock:
\* the same handler, which does not look at gameState; the pointer is where it was
StrayPointerRelease ==
    /\ ~loop.cleaned /\ ~isMobile
    /\ ~host.locked
    /\ loop.renders < MaxRenders
    /\ \E m \in {host.mouse} :
          LET h == [host EXCEPT !.gameState = "spectator", !.locked = FALSE, !.mouse = m]
          IN  /\ host' = [animateSpectator(h) EXCEPT !.lastEvent = "pointerlockchange"]
              /\ loop' = [requestSpectator(loop)
                             EXCEPT !.renders = @ + 1,
                                    !.target = hoverLogic(h, loop, FALSE).target]
    /\ isActive' = FALSE
    /\ keysPressed' = [k \in Keys |-> FALSE]
    /\ player' = [player EXCEPT !.velocity = <<0, 0>>]
    /\ listeners' = disposeEventListeners(listeners, isMobile)
    /\ animationFrameId' = FALSE
    /\ pendingAtTeardown' = (pendingAtTeardown \/ winTimers > 0)
    /\ camera' = [camera EXCEPT !.pos = <<-15000, 4000, 15000>>]
    /\ UNCHANGED <<calls, isMobile, lawn, walker, tree, clock, lastTouch, arc, grassMesh, treeMesh, pond, draw,
                   isCelebratingWin, score, orbs, specialOrb, cameraEuler, particlePool,
                   activeParticles, winTimers, disposed, pickCount, winPos>>

\* a pending Game.animate callback runs: update and composer.render()
GameCallback ==
    /\ animationFrameId
    /\ loop.renders < MaxRenders
    /\ host' = [host EXCEPT !.elapsed = host.elapsed + 1, !.lastEvent = "frame"]
    /\ loop' = [loop EXCEPT !.renders = @ + 1]
    /\ \E delta \in Deltas, phase \in OrbPhases, life \in LifePatterns :
          CommitInArena(update(Game, keysPressed, cameraEuler, delta, phase, life))
    /\ UNCHANGED <<calls, isMobile, lawn, walker, tree, clock, lastTouch, arc, grassMesh, treeMesh, pond, draw,
                   keysPressed, cameraEuler, listeners, animationFrameId, disposed>>

\* the cleanup the host's effect returns: cancelAnimationFrame(animationFrameId), the
\* host's listeners removed, game.dispose()
Cleanup ==
    /\ ~loop.cleaned
    /\ loop' = [cancelSpectator(loop) EXCEPT !.cleaned = TRUE]
    /\ host' = [host EXCEPT !.lastEvent = "cleanup"]
    /\ disposed' = TRUE
    /\ listeners' = disposeEventListeners(listeners, isMobile)
    /\ activeParticles' = <<>>
    /\ particlePool' = <<>>
    /\ pendingAtTeardown' = (pendingAtTeardown \/ winTimers > 0)
    /\ UNCHANGED <<calls, isMobile, lawn, walker, tree, clock, lastTouch, arc, grassMesh, treeMesh, pond, draw,
                   isActive, isCelebratingWin, score, orbs, specialOrb, player, keysPressed,
                   camera, cameraEuler, winTimers, animationFrameId, pickCount, winPos>>

NextLoops ==
    \/ SpectatorCallback
    \/ HostMouseMove
    \/ HostClickDesktop
    \/ HostClickMobile
    \/ HostPointerLock
    \/ HostPointerRelease
    \/ GameCallback
    \/ Cleanup

\* the host from its mount to its cleanup, with the events a browser delivers
SpecLoops == Init /\ [][NextLoops]_vars

NextLoopEvents == NextLoops \/ StrayPointerRelease

\* the same with a pointer-lock release delivered whenever the host holds no lock
SpecLoopEvents == Init /\ [][NextLoopEvents]_vars

\* ------------------------------------------------------------------ App.tsx's game loop near the pond
exceptWalker == <<isMobile, lawn, loop, clock, tree, lastTouch, host, arc, grassMesh, treeMesh, pond,
                  draw, isActive, isCelebratingWin, score, orbs, specialOrb, player,
                  keysPressed, camera, cameraEuler, particlePool, activeParticles,
                  winTimers, listeners, animationFrameId, disposed, calls, pickCount,
                  winPos, pendingAtTeardown>>

AppKeys == {"w", "a", "d", " "}
AppYaws == {0, 90, 180, 270}
AppDeltas == {100, 500}

\* a keydown or keyup of the window listeners
AppKey ==
    /\ \E k \in AppKeys :
          walker' = [walker EXCEPT !.keys = IF k \in @ THEN @ \ {k} ELSE @ \cup {k}]
    /\ UNCHANGED exceptWalker

\* one frame of animate: updatePlayer(delta), the camera wherever the orbit controls
\* have put it
AppUpdatePlayer ==
    /\ \E yaw \in AppYaws, delta \in AppDeltas : walker' = updatePlayerApp(walker, yaw, delta)
    /\ UNCHANGED exceptWalker

NextApp == AppKey \/ AppUpdatePlayer

SpecApp == Init /\ [][NextApp]_vars

\* ------------------------------------------------------------------ the grass colour and density controls
exceptLawn == <<isMobile, walker, loop, clock, tree, lastTouch, host, arc, grassMesh, treeMesh,
                pond, draw, isActive, isCelebratingWin, score, orbs, specialOrb, player,
                keysPressed, camera, cameraEuler, particlePool, activeParticles, winTimers,
                listeners, animationFrameId, disposed, calls, pickCount, winPos,
                pendingAtTeardown>>

\* colours of the picker the model chooses
Palette == {grassBaseColor, <<40, 90, 200>>, <<230, 60, 60>>}
\* the ends of 0.8 + Math.random() * 0.4
Brightness == {800, 1199}

\* 'Grass Base Color' changed
SetGrassBaseColor ==
    /\ \E value \in Palette, factors \in [Samples -> Brightness] :
          lawn' = setGrassBaseColor(lawn, value, factors)
    /\ UNCHANGED exceptLawn

\* 'Grass Density' changed: grassMesh.count = Math.floor(value)
SetGrassDensity ==
    /\ \E value \in GrassStops : lawn' = [lawn EXCEPT !.count = value]
    /\ UNCHANGED exceptLawn

NextLawn == SetGrassBaseColor \/ SetGrassDensity

SpecLawn == Init /\ [][NextLawn]_vars

\* ------------------------------------------------------------------ frame times
exceptClock == <<isMobile, lawn, walker, loop, tree, lastTouch, host, arc, grassMesh, treeMesh,
                 pond, draw, isActive, isCelebratingWin, score, orbs, specialOrb, player,
                 keysPressed, camera, cameraEuler, particlePool, activeParticles, winTimers,
                 listeners, animationFrameId, disposed, calls, pickCount, winPos,
                 pendingAtTeardown>>

\* the time the model follows the clocks for
MaxNow == 60
\* the time between two display refreshes
RefreshTimes == {16, 33}
\* the time between the two readings of one frame, which are a few statements apart
Between == {0, 1}

\* time passes until the next refresh
Refresh ==
    /\ clock.now < MaxNow
    /\ \E step \in RefreshTimes : clock' = [clock EXCEPT !.now = @ + step]
    /\ UNCHANGED exceptClock

\* a frame of App.tsx's animate: getElapsedTime(), then getDelta(); that page has no
\* other loop
AppAnimate ==
    /\ clock.last \in {"none", "app"}
    /\ clock.now > clock.frameAt["app"]
    /\ \E between \in Between :
          clock' = framed(clock, "app",
                          elapsedThenDelta(clock.oldTime["app"], clock.now, between))
    /\ UNCHANGED exceptClock

\* a frame of animateSpectator: the same order
SpectatorAnimate ==
    /\ clock.last # "app"
    /\ clock.now > clock.frameAt["spectator"]
    /\ \E between \in Between :
          clock' = framed(clock, "spectator",
                          elapsedThenDelta(clock.oldTime["spectator"], clock.now, between))
    /\ UNCHANGED exceptClock

\* a frame of Game.animate: getDelta(), then getElapsedTime()
GameAnimate ==
    /\ clock.last # "app"
    /\ clock.now > clock.frameAt["game"]
    /\ \E between \in Between :
          clock' = framed(clock, "game",
                          deltaThenElapsed(clock.oldTime["game"], clock.now, between))
    /\ UNCHANGED exceptClock

NextClock == Refresh \/ AppAnimate \/ SpectatorAnimate \/ GameAnimate

SpecClock == Init /\ [][NextClock]_vars

\* the game, the host's timer facility firing every pending timeout
FairSpec == Spec /\ WF_vars(WinTimerFire)

\* ================================================================== claims
Range(f) == {f[i] : i \in DOMAIN f}
ActiveMeshes == {activeParticles[i].mesh : i \in DOMAIN activeParticles}

\* C1: before dispose, after any sequence of triggerOrbBurst and updateParticles calls,
\* activeParticles.length + particlePool.length = MAX_PARTICLES, no mesh is in both
\* collections and none is held twice.
C1_PoolConservation ==
    ~disposed =>
        /\ Len(activeParticles) + Len(particlePool) = MAX_PARTICLES
        /\ ActiveMeshes \cap Range(particlePool) = {}
        /\ Cardinality(ActiveMeshes \cup Range(particlePool)) = MAX_PARTICLES

\* particles of several bursts in flight while others have been handed back
C1_Witness ==
    /\ Len(activeParticles) > PARTICLES_PER_BURST
    /\ Len(particlePool) % PARTICLES_PER_BURST # 0
    /\ particlePool # SubSeq([i \in 1..MAX_PARTICLES |-> i], 1, Len(particlePool))

ActiveIds ==
    {orbs[i].id : i \in DOMAIN orbs} \cup (IF specialOrb = NoOrb THEN {} ELSE {SpecialId})
OrbValue(id) == IF id = SpecialId THEN 5 ELSE 1
RECURSIVE Scored(_)
Scored(n) == IF n = 0 THEN 0 ELSE Scored(n - 1) + OrbValue(n) * pickCount[n]

\* C2: within a round every orb is scored at most once, an orb is active exactly until
\* it is scored, and the score is the sum of the values of the orbs scored once each.
C2_PickupOnce ==
    /\ \A id \in 1..ORB_COUNT : pickCount[id] <= 1
    /\ \A id \in 1..ORB_COUNT : pickCount[id] = 1 <=> id \notin ActiveIds
    /\ score = Scored(ORB_COUNT)

\* the special orb was picked and the player has come to rest on the spot, the loop
\* still running and outside a celebration: ticks go on within the radius of the orb
C2_Witness ==
    /\ isActive /\ animationFrameId /\ ~isCelebratingWin
    /\ pickCount[SpecialId] = 1 /\ score >= 5
    /\ player.velocity = <<0, 0>>
    /\ \E draws \in DrawStreams :
          InPickupRange(player.pos, spawnOrbs(draws).specialOrb, <<1000, 0, 0>>)

\* C3: after every updatePlayer call the player's bounding box, recomputed from its
\* current position and orientation, does not intersect the monolith's bounding box,
\* given that it did not before the call.
C3_NonPenetration == ~intersectsBox(playerBBox(player.pos, player.yaw), monolithBBox)

\* C4: once stopGame() or dispose() has been called, a win timer that was pending at
\* that moment never fires (no respawn, score and isCelebratingWin are left alone
\* by it).
C4_NoTimerAfterTeardown == [][pendingAtTeardown => winTimers' >= winTimers]_vars

\* C5: after any number of startGame / stopGame cycles, on desktop and on mobile,
\* each handler is attached at most once while the game is active and not at all
\* while it is inactive.
C5_ListenersDeregistered ==
    /\ \A h \in Handlers : listeners[h] <= 1
    /\ ~isActive => \A h \in Handlers : listeners[h] = 0

\* C6: in every state between a stopGame() call and the next startGame() call, whatever
\* input events arrive, the four held-key flags are false and the velocity is zero.
C6_NoStaleInput ==
    ~isActive =>
        /\ \A k \in Keys : ~keysPressed[k]
        /\ player.velocity = <<0, 0>>

\* C7: immediately after every startGame() call the player is at the spawn position
\* (pond centre, hover height), isJumping is false and yVelocity is 0.
C7_RestartAtSpawn ==
    [][(~isActive /\ isActive') =>
          /\ player'.pos = spawnPos
          /\ ~player'.isJumping
          /\ player'.yVelocity = 0]_vars

\* C8: once all six orbs of a round are collected the score is WIN_SCORE and the
\* celebration has been entered in the updateOrbs call of the last pickup; the
\* celebration is never entered while the score is below WIN_SCORE.
C8_Winning ==
    /\ (orbs = <<>> /\ specialOrb = NoOrb) => (score = WIN_SCORE /\ isCelebratingWin)
    /\ isCelebratingWin => score >= WIN_SCORE

C8_Witness ==
    /\ isCelebratingWin /\ score = WIN_SCORE
    /\ orbs = <<>> /\ specialOrb = NoOrb
    /\ \A id \in 1..ORB_COUNT : pickCount[id] = 1

\* what one more frame does to the player, the camera and the particles
StillUpdates(delta, phase, life) ==
    LET g == update(Game, keysPressed, cameraEuler, delta, phase, life)
        p == updatePlayer(player, keysPressed, cameraEuler.y, delta)
    IN  /\ g.player = p
        /\ g.camera = updateCamera(camera, p.pos, cameraEuler.y, cameraEuler.x, delta)
        /\ g.activeParticles = updateParticles(particlePool, activeParticles, delta).active

\* C9: during a celebration no step changes the score, the orbs or the special orb,
\* bursts particles for a pickup or calls handleWin again, while update still runs
\* updatePlayer, updateCamera and updateParticles.
C9_CelebrationSuppresses ==
    /\ [][isCelebratingWin /\ isCelebratingWin' =>
            /\ score' = score /\ orbs' = orbs /\ specialOrb' = specialOrb
            /\ pickCount' = pickCount /\ winTimers' = winTimers]_vars
    /\ [](isCelebratingWin /\ isActive =>
            \A delta \in Deltas, phase \in OrbPhases, life \in LifePatterns :
                StillUpdates(delta, phase, life))

C9_Witness == isCelebratingWin /\ isActive /\ winPos # <<>> /\ player.pos # winPos

\* C10: a celebration is followed, the timer firing, by a state with isCelebratingWin
\* false, score 0, five normal orbs and the special orb; isCelebratingWin is never
\* false while the score is WIN_SCORE or more.
C10_FreshRound ==
    /\ [](~isCelebratingWin => score < WIN_SCORE)
    /\ isCelebratingWin ~>
          (/\ ~isCelebratingWin /\ score = 0
           /\ Len(orbs) = ORB_COUNT - 1 /\ specialOrb # NoOrb)

C10_Witness ==
    /\ winPos # <<>> /\ winTimers = 0
    /\ ~isCelebratingWin /\ score = 0
    /\ Len(orbs) = ORB_COUNT - 1 /\ specialOrb # NoOrb

\* no collectible is left
Depleted == orbs = <<>> /\ specialOrb = NoOrb

\* C11: each time the set of active collectibles becomes empty exactly one respawn
\* timer is scheduled, none is added while the set stays empty, at most one timer is
\* pending at any time, and when it fires the whole batch is respawned with score 0.
C11_RespawnScheduledOnce ==
    /\ [](winTimers <= 1)
    /\ [][/\ (~Depleted /\ Depleted') => (winTimers = 0 /\ winTimers' = 1)
          /\ (Depleted /\ Depleted') => winTimers' = winTimers
          /\ winTimers' < winTimers =>
                (/\ score' = 0 /\ Len(orbs') = ORB_COUNT - 1 /\ specialOrb' # NoOrb)]_vars

C11_Witness ==
    /\ Depleted /\ winTimers = 1
    /\ isActive /\ animationFrameId /\ winPos # <<>> /\ player.pos[3] < winPos[3]

\* every collectible spawnOrbs has placed so far
PlacedOrbs == (IF specialOrb = NoOrb THEN {} ELSE {specialOrb}) \cup Range(orbs)

\* how far v lies outside the interval [c - h, c + h]
Outside(v, c, h) == IF Abs(v - c) > h THEN Abs(v - c) - h ELSE 0

\* the point <<x, z>> at orb height is at least pond.radius + 1 from the pond's centre in
\* the plane and at least 2.0 from the monolith's box
ClearOfPond(d) ==
    \/ Abs(d[1] - pond.x) >= pond.radius + 1000
    \/ Abs(d[2] - pond.z) >= pond.radius + 1000
    \/ (d[1] - pond.x) * (d[1] - pond.x) + (d[2] - pond.z) * (d[2] - pond.z)
          >= (pond.radius + 1000) * (pond.radius + 1000)

ClearOfMonolith(d) ==
    LET dx == Outside(d[1], monolithCX, monolithHalfX)
        dy == Outside(hoverHeight, monolithCY, monolithHalfY)
        dz == Outside(d[2], monolithCZ, monolithHalfZ)
    IN  \/ dx >= 2000 \/ dy >= 2000 \/ dz >= 2000
        \/ dx * dx + dy * dy + dz * dz >= 2000 * 2000

\* C12: every orb spawnOrbs places, normal or special, has its base position inside the
\* 45 x 45 spawn square, at planar distance at least pond radius + 1 from the pond's
\* centre and at distance at least 2.0 from the monolith's bounding box, whatever the
\* random draws are.
C12_PlacementInvariant ==
    \A o \in PlacedOrbs :
        /\ 2 * Abs(o.base[1]) <= 45000 /\ 2 * Abs(o.base[2]) <= 45000
        /\ ClearOfPond(o.base)
        /\ ClearOfMonolith(o.base)

C12_Witness ==
    /\ ~Placing
    /\ specialOrb.base = <<2400, -15000>>
    /\ \E i \in DOMAIN orbs : orbs[i].base = <<-6000, 5000>>
    /\ \E i \in DOMAIN orbs : orbs[i].base = <<-22500, -22500>>

\* the point <<x, z>> is at planar distance at least r from the pond's centre
PlanarFar(d, r) ==
    \/ Abs(d[1] - pond.x) >= r
    \/ Abs(d[2] - pond.z) >= r
    \/ (d[1] - pond.x) * (d[1] - pond.x) + (d[2] - pond.z) * (d[2] - pond.z) >= r * r

\* the point <<x, z>> on the ground lies within the monolith's own box
InMonolithBox(d) ==
    Abs(d[1] - monolithCX) <= monolithHalfX /\ Abs(d[2] - monolithCZ) <= monolithHalfZ

\* C13: every grass instance createGrass writes is at planar distance at least the pond's
\* radius from the pond's centre, every tree instance createPineTrees writes at least
\* the radius + 2, and none of them lies within the monolith's bounding box, let alone
\* the expanded one, whatever the random draws are.
C13_VegetationClear ==
    /\ grassMesh # NoMesh =>
          \A d \in grassMesh.at : PlanarFar(d, pond.radius) /\ ~InMonolithBox(d)
    /\ treeMesh # NoMesh =>
          \A d \in treeMesh.at : PlanarFar(d, pond.radius + 2000) /\ ~InMonolithBox(d)

\* the part of C13 the code keeps: the pond distances of both, and the trees' distance
\* of at least 2.0 from the monolith
C13_PondAndTrees ==
    /\ grassMesh # NoMesh => \A d \in grassMesh.at : PlanarFar(d, pond.radius)
    /\ treeMesh # NoMesh =>
          \A d \in treeMesh.at :
              PlanarFar(d, pond.radius + 2000) /\ ~InMonolithBox(d) /\ ClearOfMonolith(d)

\* C14: the visible-instance count of the grass mesh and of the tree mesh never exceeds
\* the capacity the mesh was allocated with, whatever grassCount and maxGrassCount a
\* caller passes to createGrass and wherever the density sliders are moved.
C14_InstanceCap ==
    /\ grassMesh # NoMesh => grassMesh.count <= grassMesh.capacity
    /\ treeMesh # NoMesh => treeMesh.count <= treeMesh.capacity

\* some point of the spawn square is clear of the pond and of the monolith
Admissible ==
    \E d \in Candidates :
        2 * Abs(d[1]) <= 45000 /\ 2 * Abs(d[2]) <= 45000 /\ ClearOfPond(d) /\ ClearOfMonolith(d)

\* spawnOrbs has returned
AllPlaced == specialOrb # NoOrb /\ Len(orbs) = ORB_COUNT - 1 /\ score = 0

\* C15: with the host's pond, and whenever some candidate is admissible, every placeOrb
\* loop exits after finitely many draws of a fair Math.random, so spawnOrbs returns with
\* all 6 orbs placed; the loop has no attempt cap, so when no candidate is admissible it
\* never places an orb and spawnOrbs never returns.
C15_PlacementTerminates ==
    /\ pond = defaultPond => Admissible
    /\ Admissible => <>AllPlaced
    /\ ~Admissible => [](specialOrb = NoOrb /\ orbs = <<>> /\ ENABLED DrawRejected)

C15_Witness ==
    /\ AllPlaced /\ pond = defaultPond
    /\ Len(orbs) + 1 = 6
    /\ draw = orbs[Len(orbs)].base

\* C16: with hover height 1.5, launch speed 7.0, gravity 20.0 and a fixed delta of
\* 1/60 s, a jump from the ground is back at exactly y = 1.5 with isJumping false and
\* yVelocity 0 at update number 41, 42 or 43 after the launch, and y is above 1.5 after
\* every earlier update.
C16_JumpArc ==
    /\ (arc.isJumping /\ calls >= 1) => (arc.y > 1500 * 180 /\ calls < 43)
    /\ (~arc.isJumping /\ calls >= 1) =>
          (calls \in 41..43 /\ arc.y = 1500 * 180 /\ arc.yVelocity = 0)

C16_Witness ==
    /\ ~arc.isJumping /\ calls = 42
    /\ arc.y = 1500 * 180 /\ arc.yVelocity = 0
    /\ arc.gdt = 1000

\* C17: on every rendered frame, in spectator mode and while playing, the grass
\* animation's time is the current elapsed time and its interaction point is the ground
\* point under the pointer, or the sentinel (9999, 9999, 9999) when the ray hits no
\* ground; frames before the grass shader exists are left aside.
C17_VegetationFeed ==
    [][(host.shader /\ host'.elapsed # host.elapsed) =>
          /\ host'.time = host'.elapsed
          /\ host'.uMousePos = IF GroundHit(host'.mouse) = <<>>
                               THEN <<9999000, 9999000, 9999000>>
                               ELSE GroundHit(host'.mouse)]_vars

\* the part of C17 the code keeps: the frames of spectator mode
C17_SpectatorFeed ==
    [][(host.shader /\ host'.elapsed # host.elapsed /\ host'.gameState = "spectator") =>
          /\ host'.time = host'.elapsed
          /\ host'.uMousePos = IF GroundHit(host'.mouse) = <<>>
                               THEN <<9999000, 9999000, 9999000>>
                               ELSE GroundHit(host'.mouse)]_vars

\* C18: in spectator mode on a desktop, pressing the Spacebar starts the game: the host
\* leaves spectator mode and Game.startGame has run.
C18_SpaceStartsGame ==
    [][(host.gameState = "spectator" /\ ~isMobile /\ host'.lastEvent = "space"
          /\ host.lastEvent # "space") =>
          (host'.gameState = "playing" /\ isActive')]_vars

\* the step is a triggerOrbBurst call: a call that leaves the particles in flight as
\* they are (updateParticles ages every one of them) and adds to them or not
BurstStep ==
    /\ calls' # calls
    /\ Len(activeParticles') >= Len(activeParticles)
    /\ SubSeq(activeParticles', 1, Len(activeParticles)) = activeParticles

\* C19: a triggerOrbBurst call made when the pool holds k < PARTICLES_PER_BURST meshes
\* activates exactly k particles, those k meshes, leaves the pool empty and brings in
\* no mesh from outside the pool; with k = 0 it changes nothing.
C19_SilentExhaustion ==
    [][(BurstStep /\ Len(particlePool) < 15) =>
          /\ Len(activeParticles') = Len(activeParticles) + Len(particlePool)
          /\ particlePool' = <<>>
          /\ {activeParticles'[i].mesh : i \in (Len(activeParticles) + 1)..Len(activeParticles')}
                = Range(particlePool)
          /\ \A i \in DOMAIN activeParticles' : activeParticles'[i].mesh \in 1..150
          /\ (particlePool = <<>> => activeParticles' = activeParticles)]_vars

\* the pool, down to 7 meshes after an update handed 7 back, has been emptied by a burst
C19_Witness ==
    /\ particlePool = <<>>
    /\ Len(activeParticles) = 150
    /\ \E i \in DOMAIN activeParticles :
          activeParticles[i].lifetime < activeParticles[i].initialLifetime
    /\ activeParticles[150].lifetime = activeParticles[150].initialLifetime

\* C20: a jump request made while isJumping is true leaves yVelocity, isJumping and the
\* position as they are; made while isJumping is false it sets yVelocity to 7.0 and
\* isJumping to true and nothing else; so two requests with no landing between them
\* give one jump.
C20_JumpGuard ==
    [][(host'.lastEvent = "space" /\ listeners[<<"window", "keydown">>] > 0) =>
          IF player.isJumping
          THEN player' = player
          ELSE /\ player'.yVelocity = 7000 /\ player'.isJumping
               /\ player'.pos = player.pos /\ player'.yaw = player.yaw
               /\ player'.velocity = player.velocity]_vars

\* Space pressed again in mid-flight, two frames after the launch
C20_Witness ==
    /\ host.lastEvent = "space" /\ listeners[<<"window", "keydown">>] > 0
    /\ player.isJumping
    /\ player.yVelocity = 3000
    /\ player.pos[2] > 1500

\* the step delivers a mousemove or a touchmove
MoveEvent == host'.lastEvent \in {"mousemove", "touchmove"} /\ host'.gameState = host.gameState

\* C21: after startGame and any mousemove and touchmove events, whatever their
\* movements, the orbit pitch cameraEuler.x lies within 0.8 * pi / 2 = 72 degrees of
\* level; and such events received while the game is inactive leave the camera's
\* yaw and pitch as they are.
C21_PitchClamp ==
    /\ [](cameraEuler.x >= -72000 /\ cameraEuler.x <= 72000)
    /\ [][(MoveEvent /\ ~isActive) => cameraEuler' = cameraEuler]_vars

C21_Witness ==
    /\ isActive /\ cameraEuler.x = 72000 /\ cameraEuler.y # 0
    /\ host.lastEvent \in {"mousemove", "touchmove"}

\* C22: the lowest level (i = 0) and the highest level (i = branchLevels - 1), whose
\* branch length is the minimum 0.5, get no branch cone and no foliage pad; cones and
\* pads are pushed only for levels whose branch length exceeds 0.5.
C22_ShortBranchesSkipped ==
    /\ tree.cones[0] = 0 /\ tree.pads[0] = 0
    /\ tree.cones[9] = 0 /\ tree.pads[9] = 0
    /\ \A l \in 0..9 : (tree.cones[l] > 0 \/ tree.pads[l] > 0) => branchLength(l) > 500

\* what the code does instead: when the loops are over every level, the two ends
\* included, has its 5 cones, and the ends have one pad on each branch
C22_EveryLevelBuilt ==
    tree.i = 10 =>
        /\ \A l \in 0..9 : tree.cones[l] = 5
        /\ tree.pads[0] = 5 /\ tree.pads[9] = 5

\* C23: in every reachable state score + (number of normal orbs in play) + 5 * (1 if the
\* special orb is in play, else 0) = 10; hence 0 <= score <= 10, and score >= WIN_SCORE
\* only in states where no collectible remains.
C23_ScoreConservation ==
    /\ score + Len(orbs) + (IF specialOrb # NoOrb THEN 5 ELSE 0) = 10
    /\ score >= 0 /\ score <= 10
    /\ score >= WIN_SCORE => (orbs = <<>> /\ specialOrb = NoOrb)

\* mid-round: the special orb and some but not all normal orbs picked up
C23_Witness ==
    /\ isActive /\ ~isCelebratingWin
    /\ specialOrb = NoOrb /\ Len(orbs) \in 1..4
    /\ score = 5 + (5 - Len(orbs))

\* C24: in every reachable state the player's y is at least the hover height 1.5, and
\* whenever isJumping is false, y is 1.5 and yVelocity is 0, for frames of any length
\* and any order of jump requests, updates, stopGame and startGame.
C24_HoverFloor ==
    /\ player.pos[2] >= 1500
    /\ ~player.isJumping => (player.pos[2] = 1500 /\ player.yVelocity = 0)

\* in the air on the way down, the game stopped in mid-flight
C24_Witness ==
    /\ ~isActive /\ player.isJumping
    /\ player.pos[2] > 1500 /\ player.yVelocity < 0

\* C25: once the host's cleanup has run (it cancels the host's animation frame and
\* calls game.dispose()), no animation loop runs Game.update or composer.render any
\* more, whether the cleanup happens in spectator mode or while the game is playing.
C25_NoFrameAfterCleanup == [][loop.cleaned => loop'.renders = loop.renders]_vars

\* the spectator half: a cleanup in spectator mode leaves no callback pending
C25_SpectatorCleanup ==
    (loop.cleaned /\ host.gameState = "spectator") => (loop.spectator = 0 /\ ~animationFrameId)

\* C26: at every moment at most one animation-frame callback is pending across the
\* spectator loop and the game loop, and the host's gameState is "playing" exactly
\* when the Game is active, for every sequence of click and pointerlockchange events,
\* a pointer-lock release delivered in spectator mode included.
C26_SingleLoop ==
    /\ loop.spectator + (IF animationFrameId THEN 1 ELSE 0) <= 1
    /\ host.gameState = "playing" <=> isActive

\* C27: after the host has entered playing mode from a hovered player cube (startGame,
\* then setPlayerHover(false)) the glow target is the base intensity, and it is still
\* the base intensity once the game is stopped and the host is back in spectator mode
\* with the pointer not over the player.
C27_HoverCleared ==
    /\ host.gameState = "playing" => loop.target = baseEmissiveIntensity
    /\ (host.gameState = "spectator" /\ host.mouse # "cube"
            /\ host.lastEvent \in {"frame", "pointerlockchange"})
          => loop.target = baseEmissiveIntensity

\* C28: the position (0, 0.5, 5) to which updatePlayer sends a player who entered the
\* pond lies outside the pond circle (centre (10, 5), radius 15), so an updatePlayer
\* call that starts from it does not fire the reset again, and a player holding a
\* movement key moves away from it.
C28_ResetOutsidePond ==
    [][/\ ~appInPond(appSpawn)
       /\ (walker.pos = appSpawn /\ walker'.tried # walker.tried) => ~walker'.reset
       /\ (walker.pos = appSpawn /\ walker.keys \cap {"w", "a", "d"} # {}
              /\ walker'.tried # walker.tried) => walker'.pos # appSpawn]_vars

\* what the loop does: the player is at the start position after every update
C28_HeldAtStart == walker.pos = appSpawn /\ walker.velocity = <<0, 0, 0>>

\* C29: after any sequence of 'Grass Base Color' and 'Grass Density' changes every
\* visible grass instance (index < grassMesh.count) carries the most recently chosen
\* base colour multiplied by a brightness factor in [0.8, 1.2].
C29_VisibleGrassColour ==
    \A i \in Samples :
        i < lawn.count => \E f \in 800..1200 : lawn.colors[i] = Shaded(lawn.base, f)

\* C30: in the loops that read clock.getElapsedTime() before clock.getDelta() (App.tsx's
\* animate and the spectator loop) the delta handed to the per-frame updates is the
\* time elapsed since the previous frame, as in Game.animate, which reads getDelta()
\* first; a millisecond is allowed for the time between the two readings.
C30_FrameDelta ==
    clock.last \in {"app", "spectator", "game"} => Abs(clock.delta - clock.gap) <= 1

\* the half that holds: Game.animate hands on the time since its previous frame
C30_GameDelta == clock.last = "game" => Abs(clock.delta - clock.gap) <= 1

\* what the other two loops hand on: the time between the two readings at most
C30_NearZero == clock.last \in {"app", "spectator"} => clock.delta <= 1
====
